---------------------------- MODULE Spec2Model ----------------------------
(***************************************************************************)
(* Model of the genotype-phenotype association set of the GA4GH reference  *)
(* server (ga4gh/datamodel/genotype_phenotype.py).                         *)
(*                                                                         *)
(* Text (URIs, labels, prefixes, query text) is a sequence of tokens.  A   *)
(* token that comes from data is one "character" of the string; a token    *)
(* that comes from a format string of the code is that literal fragment.   *)
(* Concatenation, substring search, replace and split work on tokens.      *)
(***************************************************************************)
EXTENDS Integers, Sequences, FiniteSets, TLC

VARIABLES
    rdfGraph,      \* self._rdfGraph: the triples, in the store's iteration order
    namespaces,    \* self._rdfGraph.namespaces(): (prefix, namespace) bindings
    version,       \* self._version
    pc,            \* "idle": no call in progress; "done": a call has returned
    op,            \* the operation that returned
    args,          \* its arguments
    outcome,       \* its outcome: the exception raised or the value returned
    queries,       \* number of graph queries the call ran
    lookups,       \* URIs whose triples the call fetched, in order
    lastFormat,    \* the latest direct _formatFilterQuery call and its outcome
    session,       \* a client paging through a feature search
    dataset,       \* a Dataset: for each kind its id list, id map and name map
    added          \* the objects added to the dataset, by kind, in order

vars == <<rdfGraph, namespaces, version, pc, op, args, outcome, queries,
          lookups, lastFormat, session,
                   dataset, added>>

(***************************************************************************)
(* Bounds                                                                  *)
(***************************************************************************)
\* longest ids / terms list of a structured criterion
MaxTerms == 2
\* largest pageSize and offset passed to getAssociations
MaxPage == 1
\* pages a client asks for in one feature search
MaxPages == 3
\* files in a data directory
MaxFiles == 2
\* objects added to a dataset
MaxAdds == 2

(***************************************************************************)
(* Python values                                                           *)
(***************************************************************************)
None == <<"None">>

NoError == "none"
NotImplementedException == "NotImplementedException"
ValueError == "ValueError"
KeyError == "KeyError"
ParseException == "ParseException"

Raise(e) == [err |-> e, value |-> None]
Return(v) == [err |-> NoError, value |-> v]

(***************************************************************************)
(* String helpers (Python str operations on token sequences)               *)
(***************************************************************************)
\* s.startswith(p)
StartsWith(s, p) == Len(p) <= Len(s) /\ SubSeq(s, 1, Len(p)) = p

\* sub in s
Contains(s, sub) ==
    \E i \in 0..(Len(s) - Len(sub)) : SubSeq(s, i + 1, i + Len(sub)) = sub

\* s.replace(old, ''): every non-overlapping occurrence, left to right
RECURSIVE Remove(_, _)
Remove(s, old) ==
    IF s = <<>> THEN <<>>
    ELSE IF old # <<>> /\ StartsWith(s, old)
         THEN Remove(SubSeq(s, Len(old) + 1, Len(s)), old)
         ELSE <<Head(s)>> \o Remove(Tail(s), old)

\* sep.join(parts), sep one literal fragment
RECURSIVE Join(_, _)
Join(parts, sep) ==
    IF parts = <<>> THEN <<>>
    ELSE IF Len(parts) = 1 THEN parts[1]
    ELSE parts[1] \o <<sep>> \o Join(Tail(parts), sep)

\* s.split(sep): the pieces between the occurrences of the token sep
RECURSIVE Split(_, _)
Split(s, sep) ==
    IF \A i \in 1..Len(s) : s[i] # sep THEN <<s>>
    ELSE LET i == CHOOSE k \in 1..Len(s) :
                      s[k] = sep /\ \A j \in 1..(k - 1) : s[j] # sep
         IN <<SubSeq(s, 1, i - 1)>> \o Split(SubSeq(s, i + 1, Len(s)), sep)

(***************************************************************************)
(* Namespace table                                                         *)
(***************************************************************************)
\* variant: None instead of an exception when no binding has the prefix
RECURSIVE FindPrefixOrNone(_, _, _)
FindPrefixOrNone(nss, termPrefix, termId) ==
    IF nss = <<>> THEN Return(None)
    ELSE IF Head(nss).prefix = termPrefix
         THEN Return(Head(nss).namespace \o termId)
         ELSE FindPrefixOrNone(Tail(nss), termPrefix, termId)

\* _toNamespaceURL: "prefix:localId" -> namespace + localId
RECURSIVE FindPrefix(_, _, _)
FindPrefix(nss, termPrefix, termId) ==
    IF nss = <<>> THEN Raise(NotImplementedException)
    ELSE IF Head(nss).prefix = termPrefix
         THEN Return(Head(nss).namespace \o termId)
         ELSE FindPrefix(Tail(nss), termPrefix, termId)

toNamespaceURL(nss, term) ==
    LET parts == Split(term, ":")
    IN IF Len(parts) # 2 THEN Raise(ValueError)
       ELSE FindPrefix(nss, parts[1], parts[2])

\* _getIdentifier: url with the first matching namespace removed, else None
RECURSIVE getIdentifier(_, _)
getIdentifier(nss, url) ==
    IF nss = <<>> THEN None
    ELSE IF Contains(url, Head(nss).namespace)
         THEN Remove(url, Head(nss).namespace)
         ELSE getIdentifier(Tail(nss), url)

\* variant: None when no namespace is the url
RECURSIVE getPrefixOrNone(_, _)
getPrefixOrNone(nss, url) ==
    IF nss = <<>> THEN Return(None)
    ELSE IF Head(nss).namespace = url
         THEN Return(Head(nss).prefix)
         ELSE getPrefixOrNone(Tail(nss), url)

\* _getPrefix: the prefix bound to exactly this namespace
RECURSIVE getPrefix(_, _)
getPrefix(nss, url) ==
    IF nss = <<>> THEN Raise(NotImplementedException)
    ELSE IF Head(nss).namespace = url
         THEN Return(Head(nss).prefix)
         ELSE getPrefix(Tail(nss), url)

\* _getPrefixURL: the first namespace that occurs in url, else None
RECURSIVE getPrefixURL(_, _)
getPrefixURL(nss, url) ==
    IF nss = <<>> THEN None
    ELSE IF Contains(url, Head(nss).namespace)
         THEN Head(nss).namespace
         ELSE getPrefixURL(Tail(nss), url)


(***************************************************************************)
(* Filter criteria: None, a string, or a dict with 'ids' and 'terms'       *)
(***************************************************************************)
NoCriterion == [kind |-> "none", str |-> <<>>, ids |-> <<>>, terms |-> <<>>]
StrCriterion(s) == [kind |-> "str", str |-> s, ids |-> <<>>, terms |-> <<>>]
DictCriterion(ids, terms) ==
    [kind |-> "dict", str |-> <<>>, ids |-> ids, terms |-> terms]

\* isinstance(c, basestring), isinstance(c, dict), c is None
IsStr(c) == c.kind = "str"
IsDict(c) == c.kind = "dict"
IsNone(c) == c.kind = "none"

\* Python truth value of a string or None, and of a list
Truthy(v) == v # None /\ v # <<>>
NonEmpty(list) == Len(list) > 0

(***************************************************************************)
(* _formatFilterQuery                                                      *)
(***************************************************************************)
\* the query template before and after the #%FILTER% placeholder
QueryHead ==
    "PREFIX OBAN: <http://purl.org/oban/> PREFIX OBO: <http://purl.obolibrary.org/obo/> PREFIX dc: <http://purl.org/dc/elements/1.1/> PREFIX rdfs: <http://www.w3.org/2000/01/rdf-schema#> SELECT ?association ?environment ?environment_label ?feature ?feature_label ?phenotype ?phenotype_label (GROUP_CONCAT(?source; separator=\"|\") AS ?sources) ?evidence_type WHERE { ?association  a OBAN:association . ?association    OBO:RO_0002558 ?evidence_type . ?association    OBO:RO_has_environment ?environment   . OPTIONAL { ?association  dc:source ?source } . ?association    OBAN:association_has_subject ?feature . ?association    OBAN:association_has_object ?phenotype . ?environment  rdfs:label ?environment_label  . ?phenotype  rdfs:label ?phenotype_label  . ?feature  rdfs:label ?feature_label  . "
QueryTail == " } GROUP  BY ?association ORDER  BY ?association "

Roles == <<"feature", "environment", "phenotype">>

\* 'regex(?<role>_label, "{}")'
RegexOpen(role) ==
    CASE role = "feature" -> "regex(?feature_label, \""
      [] role = "environment" -> "regex(?environment_label, \""
      [] role = "phenotype" -> "regex(?phenotype_label, \""
RegexClose == "\")"

\* '?<role> = <{}> '
EqOpen(role) ==
    CASE role = "feature" -> "?feature = <"
      [] role = "environment" -> "?environment = <"
      [] role = "phenotype" -> "?phenotype = <"
EqClose == "> "

\* variant: only the feature string is turned into a clause
StrFilterFeatureOnly(role, c) ==
    IF Truthy(c.str) /\ IsStr(c) /\ role = "feature"
    THEN << <<RegexOpen(role)>> \o c.str \o <<RegexClose>> >>
    ELSE <<>>

\* lines 338-344: a non-empty string criterion gives one regex clause
StrFilter(role, c) ==
    IF Truthy(c.str) /\ IsStr(c)
    THEN << <<RegexOpen(role)>> \o c.str \o <<RegexClose>> >>
    ELSE <<>>

\* "({})".format(" || ".join(alternatives))
OrClause(alternatives) == <<"(">> \o Join(alternatives, " || ") \o <<")">>

\* variant: the database of an identifier is left out of its URI
IdsFilterIdentifierOnly(role, c) ==
    IF IsDict(c) /\ NonEmpty(c.ids)
    THEN << OrClause([i \in 1..Len(c.ids) |->
                <<EqOpen(role)>> \o c.ids[i].identifier \o <<EqClose>>]) >>
    ELSE <<>>

\* lines 349-355, 371-377, 394-400: the external identifiers of a dict
IdsFilter(role, c) ==
    IF IsDict(c) /\ NonEmpty(c.ids)
    THEN << OrClause([i \in 1..Len(c.ids) |->
                <<EqOpen(role)>> \o (c.ids[i].database \o c.ids[i].identifier)
                                 \o <<EqClose>>]) >>
    ELSE <<>>

\* variant: every term is resolved through the namespace table
TermURLByPrefix(nss, term) == toNamespaceURL(nss, term.term)

\* lines 360-365: a term with an id uses it, any other term is resolved
\* through the namespace table
TermURL(nss, term) ==
    IF Truthy(term.id) THEN Return(term.id)
    ELSE toNamespaceURL(nss, term.term)

\* lines 357-367, 380-390, 402-412: the ontology terms of a dict; the first
\* term that cannot be resolved raises
TermsFilter(nss, role, c) ==
    IF IsDict(c) /\ NonEmpty(c.terms)
    THEN LET urls == [i \in 1..Len(c.terms) |-> TermURL(nss, c.terms[i])]
             bad == {i \in 1..Len(urls) : urls[i].err # NoError}
         IN IF bad # {}
            THEN Raise(urls[CHOOSE i \in bad : \A j \in bad : i <= j].err)
            ELSE Return(<< OrClause([i \in 1..Len(urls) |->
                     <<EqOpen(role)>> \o urls[i].value \o <<EqClose>>]) >>)
    ELSE Return(<<>>)

\* variant: the clauses joined by ||
FilterTextOr(filters) == <<"FILTER (">> \o Join(filters, " || ") \o <<")">>

\* "FILTER ({})".format(' && '.join(filters))
FilterText(filters) == <<"FILTER (">> \o Join(filters, " && ") \o <<")">>

\* query.replace("#%FILTER%", filter)
QueryText(filter) == <<QueryHead>> \o filter \o <<QueryTail>>

\* the filters list, in the order the code appends to it
Filters(nss, feature, environment, phenotype) ==
    LET strs == StrFilter("feature", feature)
                \o StrFilter("environment", environment)
                \o StrFilter("phenotype", phenotype)
        ft == TermsFilter(nss, "feature", feature)
        et == TermsFilter(nss, "environment", environment)
        pt == TermsFilter(nss, "phenotype", phenotype)
    IN IF ft.err # NoError THEN ft
       ELSE IF et.err # NoError THEN et
       ELSE IF pt.err # NoError THEN pt
       ELSE Return(strs
                   \o IdsFilter("feature", feature) \o ft.value
                   \o IdsFilter("environment", environment) \o et.value
                   \o IdsFilter("phenotype", phenotype) \o pt.value)

formatFilterQuery(nss, feature, environment, phenotype) ==
    IF IsNone(feature) /\ IsNone(environment) /\ IsNone(phenotype)
    THEN Raise(NotImplementedException)
    ELSE LET filters == Filters(nss, feature, environment, phenotype)
         IN IF filters.err # NoError THEN filters
            ELSE Return(QueryText(FilterText(filters.value)))


(***************************************************************************)
(* The graph: triples [s, p, o]; s and o are token strings, p a predicate  *)
(***************************************************************************)
TYPE == "http://www.w3.org/1999/02/22-rdf-syntax-ns#type"
LABEL == "http://www.w3.org/2000/01/rdf-schema#label"
HAS_QUALITY == "http://purl.obolibrary.org/obo/BFO_0000159"
HAS_EVIDENCE == "http://purl.obolibrary.org/obo/RO_0002558"
HAS_ENVIRONMENT == "http://purl.obolibrary.org/obo/RO_has_environment"
HAS_SUBJECT == "http://purl.org/oban/association_has_subject"
HAS_OBJECT == "http://purl.org/oban/association_has_object"
SOURCE == "http://purl.org/dc/elements/1.1/source"
VERSION_INFO == "http://www.w3.org/2002/07/owl#versionInfo"
OBAN_ASSOCIATION == <<"http://purl.org/oban/association">>
CGD_TTL == <<"http://data.monarchinitiative.org/ttl/cgd.ttl">>
RO_0002606 == <<"http://purl.obolibrary.org/obo/RO_0002606">>

Triple(s, p, o) == [s |-> s, p |-> p, o |-> o]

\* self._rdfGraph.triples((s, None, None)), in the store's order
TriplesOf(graph, s) == SelectSeq(graph, LAMBDA t : t.s = s)

\* the objects of (s, p, ?o)
Objects(graph, s, p) ==
    {graph[i].o : i \in {j \in 1..Len(graph) : graph[j].s = s /\ graph[j].p = p}}

\* lines 82-88: the last versionInfo triple of cgd.ttl, else None
ExtractVersion(graph) ==
    LET vs == SelectSeq(graph, LAMBDA t : t.s = CGD_TTL /\ t.p = VERSION_INFO)
    IN IF vs = <<>> THEN None ELSE vs[Len(vs)].o

(***************************************************************************)
(* self._rdfGraph.query(query): the SPARQL engine on the generated text    *)
(***************************************************************************)
\* the solutions of the WHERE pattern of the template, before FILTER
SourcesOf(graph, a) ==
    IF Objects(graph, a, SOURCE) = {} THEN {None}
    ELSE Objects(graph, a, SOURCE)

PatternSolutions(graph) ==
    LET assocs == {graph[i].s : i \in {j \in 1..Len(graph) :
                       graph[j].p = TYPE /\ graph[j].o = OBAN_ASSOCIATION}}
    IN UNION {UNION {UNION {UNION {UNION {
         {[association |-> a, evidence_type |-> ev, environment |-> e,
           feature |-> f, phenotype |-> p, environment_label |-> el,
           feature_label |-> fl, phenotype_label |-> pl, source |-> src] :
             el \in Objects(graph, e, LABEL),
             fl \in Objects(graph, f, LABEL),
             pl \in Objects(graph, p, LABEL),
             src \in SourcesOf(graph, a)} :
         p \in Objects(graph, a, HAS_OBJECT)} :
         f \in Objects(graph, a, HAS_SUBJECT)} :
         e \in Objects(graph, a, HAS_ENVIRONMENT)} :
         ev \in Objects(graph, a, HAS_EVIDENCE)} : a \in assocs}

\* the FILTER of a generated query: the clauses between "FILTER (" and ")"
FilterClauses(text) ==
    LET filter == SubSeq(text, 2, Len(text) - 1)
    IN IF filter = <<>> THEN <<>>
       ELSE Split(SubSeq(filter, 2, Len(filter) - 1), " && ")

\* one '?role = <uri> ' test
IsEqTest(alt) ==
    /\ Len(alt) >= 2
    /\ \E i \in 1..Len(Roles) : alt[1] = EqOpen(Roles[i])
    /\ alt[Len(alt)] = EqClose

IsRegexClause(clause) ==
    /\ Len(clause) >= 2
    /\ \E i \in 1..Len(Roles) : clause[1] = RegexOpen(Roles[i])
    /\ clause[Len(clause)] = RegexClose

IsOrClause(clause) ==
    /\ Len(clause) >= 2
    /\ clause[1] = "(" /\ clause[Len(clause)] = ")"
    /\ LET alts == Split(SubSeq(clause, 2, Len(clause) - 1), " || ")
       IN \A i \in 1..Len(alts) : IsEqTest(alts[i])

\* an empty "FILTER ()" or a clause that is no expression does not parse;
\* the template without any FILTER does
Parses(text) ==
    \/ text = <<QueryHead, QueryTail>>
    \/ /\ Len(text) >= 4
       /\ text[1] = QueryHead /\ text[Len(text)] = QueryTail
       /\ text[2] = "FILTER (" /\ text[Len(text) - 1] = ")"
       /\ LET clauses == FilterClauses(text)
          IN \A i \in 1..Len(clauses) :
                 IsRegexClause(clauses[i]) \/ IsOrClause(clauses[i])

Inside(s) == SubSeq(s, 2, Len(s) - 1)

RoleOfRegex(clause) ==
    Roles[CHOOSE i \in 1..Len(Roles) : clause[1] = RegexOpen(Roles[i])]
RoleOfEq(alt) ==
    Roles[CHOOSE i \in 1..Len(Roles) : alt[1] = EqOpen(Roles[i])]

LabelOf(sol, role) ==
    CASE role = "feature" -> sol.feature_label
      [] role = "environment" -> sol.environment_label
      [] role = "phenotype" -> sol.phenotype_label
UriOf(sol, role) ==
    CASE role = "feature" -> sol.feature
      [] role = "environment" -> sol.environment
      [] role = "phenotype" -> sol.phenotype

\* regex(?label, "pattern") on patterns without metacharacters: a substring
\* test; ?role = <uri>: equality of URIs
ClauseHolds(clause, sol) ==
    IF IsRegexClause(clause)
    THEN Contains(LabelOf(sol, RoleOfRegex(clause)), Inside(clause))
    ELSE LET alts == Split(Inside(clause), " || ")
         IN \E i \in 1..Len(alts) :
                UriOf(sol, RoleOfEq(alts[i])) = Inside(alts[i])

FilterHolds(text, sol) ==
    LET clauses == FilterClauses(text)
    IN \A i \in 1..Len(clauses) : ClauseHolds(clauses[i], sol)

\* order of URIs (ORDER BY ?association): lexicographic, token by token
TokenOrder == <<"/", "1", "2", "3", "a", "b", "c/", "d/", "x/">>
Rank(tok) == CHOOSE i \in 1..Len(TokenOrder) : TokenOrder[i] = tok
RECURSIVE Less(_, _)
Less(u, v) ==
    IF v = <<>> THEN FALSE
    ELSE IF u = <<>> THEN TRUE
    ELSE IF Head(u) = Head(v) THEN Less(Tail(u), Tail(v))
    ELSE Rank(Head(u)) < Rank(Head(v))

\* variant: descending order
RECURSIVE SortUrisDescending(_)
SortUrisDescending(S) ==
    IF S = {} THEN <<>>
    ELSE LET m == CHOOSE u \in S : \A v \in S \ {u} : Less(v, u)
         IN <<m>> \o SortUrisDescending(S \ {m})

RECURSIVE SortUris(_)
SortUris(S) ==
    IF S = {} THEN <<>>
    ELSE LET m == CHOOSE u \in S : \A v \in S \ {u} : Less(u, v)
         IN <<m>> \o SortUris(S \ {m})

\* GROUP_CONCAT(?source; separator="|") over the solutions of a group
RECURSIVE GroupConcat(_)
GroupConcat(sols) ==
    IF sols = {} THEN <<>>
    ELSE LET x == CHOOSE y \in sols : TRUE
             rest == GroupConcat(sols \ {x})
             this == IF x.source = None THEN <<>> ELSE x.source
         IN IF rest = <<>> THEN this
            ELSE IF this = <<>> THEN rest ELSE this \o <<"|">> \o rest

\* one row of a group: the grouped variable, the aggregate, and a sample
\* solution's value for every other projected variable
Row(sample, group) ==
    [association |-> sample.association,
     environment |-> sample.environment,
     environment_label |-> sample.environment_label,
     feature |-> sample.feature,
     feature_label |-> sample.feature_label,
     phenotype |-> sample.phenotype,
     phenotype_label |-> sample.phenotype_label,
     sources |-> GroupConcat(group),
     evidence_type |-> sample.evidence_type]

\* the row of an aggregate query without solutions: no variable bound
EmptyRow == <<>>

\* the results the engine can give: a sequence of rows ordered by
\* association, for every choice of sample solutions; without solutions
\* either no row or one row that binds nothing
QueryResults(graph, text) ==
    LET sols == {s \in PatternSolutions(graph) : FilterHolds(text, s)}
        order == SortUris({s.association : s \in sols})
        group(a) == {s \in sols : s.association = a}
    IN IF sols = {} THEN {<<>>, <<EmptyRow>>}
       ELSE {[i \in 1..Len(order) |-> Row(pick[order[i]], group(order[i]))] :
                 pick \in {f \in [{order[i] : i \in 1..Len(order)} -> sols] :
                              \A a \in DOMAIN f : f[a].association = a}}


(***************************************************************************)
(* Result rows                                                             *)
(***************************************************************************)
\* rdflib.term.Variable(key): a leading '?' is not part of the name
Variable(key) == IF key # <<>> /\ Head(key) = "?" THEN Tail(key) ELSE key

\* variant: the key is looked up as it is written, '?' included
BoundVerbatim(key, row) == key[1] \in DOMAIN row

\* key in row, for a row of the query result
Bound(key, row) == Variable(key)[1] \in DOMAIN row

\* _bindingsToDict: k.toPython() is '?name'; the '?' is replaced by ''
bindingsToDict(row) ==
    LET name(k) == Remove(<<"?", k>>, <<"?">>)[1]
    IN [n \in {name(k) : k \in DOMAIN row} |->
            row[CHOOSE k \in DOMAIN row : name(k) = n]]

\* s without the elements that occur earlier in it
RECURSIVE Distinct(_)
Distinct(list) ==
    IF list = <<>> THEN <<>>
    ELSE LET front == Distinct(SubSeq(list, 1, Len(list) - 1))
             last == list[Len(list)]
         IN IF \E i \in 1..Len(front) : front[i] = last THEN front
            ELSE Append(front, last)

\* variant: a URI is listed once however many rows refer to it
RECURSIVE extractAssociationsDetailsDistinct(_)
extractAssociationsDetailsDistinct(rows) ==
    Distinct(IF rows = <<>> THEN <<>>
             ELSE (IF Bound(<<"feature">>, Head(rows))
                   THEN <<Head(rows).feature, Head(rows).environment,
                          Head(rows).phenotype>>
                   ELSE <<>>)
                  \o extractAssociationsDetailsDistinct(Tail(rows)))

\* _extractAssociationsDetails: the feature, environment and phenotype of
\* every row that binds 'feature'
RECURSIVE extractAssociationsDetails(_)
extractAssociationsDetails(rows) ==
    IF rows = <<>> THEN <<>>
    ELSE (IF Bound(<<"feature">>, Head(rows))
          THEN <<Head(rows).feature, Head(rows).environment,
                 Head(rows).phenotype>>
          ELSE <<>>) \o extractAssociationsDetails(Tail(rows))

\* _detailTuples: the triples of every uriRef, in the order of the list
RECURSIVE detailTuples(_, _)
detailTuples(graph, uriRefs) ==
    IF uriRefs = <<>> THEN <<>>
    ELSE LET ts == TriplesOf(graph, Head(uriRefs))
         IN [i \in 1..Len(ts) |-> [subject |-> ts[i].s,
                                   predicate |-> ts[i].p,
                                   object |-> ts[i].o]]
            \o detailTuples(graph, Tail(uriRefs))

\* d[key] = value on a Python dict
DictSet(d, key, value) ==
    [k \in DOMAIN d \cup {key} |-> IF k = key THEN value ELSE d[k]]

\* variant: the details of every subject are taken
RECURSIVE getDetailsFromAnySubject(_, _, _)
getDetailsFromAnySubject(associationDetail, uriRef, details) ==
    IF details = <<>> THEN associationDetail
    ELSE LET detail == Head(details)
             d1 == DictSet(associationDetail, detail.predicate,
                           detail.object)
         IN getDetailsFromAnySubject(DictSet(d1, "id", uriRef), uriRef,
                                     Tail(details))

\* _getDetails: a later detail of the same predicate overwrites an earlier
\* one; 'id' is set on every iteration of the loop
RECURSIVE getDetailsFrom(_, _, _)
getDetailsFrom(associationDetail, uriRef, details) ==
    IF details = <<>> THEN associationDetail
    ELSE LET detail == Head(details)
             d1 == IF detail.subject = uriRef
                   THEN DictSet(associationDetail, detail.predicate,
                                detail.object)
                   ELSE associationDetail
         IN getDetailsFrom(DictSet(d1, "id", uriRef), uriRef, Tail(details))

getDetails(uriRef, associations_details) ==
    getDetailsFrom(<<>>, uriRef, associations_details)

\* lines 139-152: one hydrated association of a row that binds '?feature';
\* the phenotype's HAS_QUALITY entry must exist
Hydrate(row, associations_details) ==
    LET association == bindingsToDict(row)
        feature == getDetails(association.feature, associations_details)
        environment ==
            getDetails(association.environment, associations_details)
        phenotype == getDetails(association.phenotype, associations_details)
    IN IF HAS_QUALITY \notin DOMAIN phenotype THEN Raise(KeyError)
       ELSE Return([association |-> association.association,
                    environment |-> environment,
                    environment_label |-> association.environment_label,
                    feature |-> feature,
                    feature_label |-> association.feature_label,
                    phenotype |-> phenotype,
                    phenotype_label |-> association.phenotype_label,
                    sources |-> association.sources,
                    evidence_type |-> association.evidence_type,
                    evidence |-> phenotype[HAS_QUALITY],
                    id |-> association.association])

(***************************************************************************)
(* _toGA4GH                                                                *)
(***************************************************************************)
\* self.getId() of the association set
SetId == <<"dataset:phenotypeAssociationSet">>

OntologyTerm(term, id, sourceVersion, sourceName) ==
    [term |-> term, id |-> id, sourceVersion |-> sourceVersion,
     sourceName |-> sourceName]

\* 'Association: genotype:[{}] phenotype:[{}] environment:[{}] '
\* 'evidence:[{}] publications:[{}]'
Description(association, evidenceId) ==
    <<"Association: genotype:[">> \o association.feature_label
    \o <<"] phenotype:[">> \o association.phenotype_label
    \o <<"] environment:[">> \o association.environment_label
    \o <<"] evidence:[">> \o evidenceId
    \o <<"] publications:[">> \o association.sources \o <<"]">>

\* lines 530-545: the feature, its type taken from the detail dictionary
FeatureOf(feature, ver, sourceName) ==
    [featureType |-> OntologyTerm(feature[TYPE], feature["id"], ver,
                                  sourceName),
     id |-> feature["id"],
     referenceName |-> feature[LABEL],
     attributes |-> feature,
     childIds |-> <<>>]

\* variant: no evidence entry without an identifier, and the evidence type
\* as description
EvidenceOfIfLabelled(nss, ver, association, sourceName) ==
    IF getIdentifier(nss, association.evidence) = None THEN <<>>
    ELSE <<[evidenceType |->
                OntologyTerm(association.evidence_type,
                             association.phenotype["id"], ver, sourceName),
            description |-> association.evidence_type]>>

\* lines 559-570: always one evidence entry; its description is the
\* identifier part of the phenotype's has-quality URI
EvidenceOf(nss, ver, association, sourceName) ==
    <<[evidenceType |->
           OntologyTerm(association.evidence_type,
                        association.phenotype["id"], ver, sourceName),
       description |-> getIdentifier(nss, association.evidence)]>>

\* variant: no environmental context
EnvironmentalContextOfNone(ver, association, sourceName) == <<>>

\* lines 572-585: always one environmental context
EnvironmentalContextOf(ver, association, sourceName) ==
    <<[id |-> association.environment["id"],
       description |-> association.environment_label,
       environmentType |->
           OntologyTerm(association.environment["id"], RO_0002606, ver,
                        sourceName)]>>

\* lines 587-596
PhenotypeInstanceOf(phenotype, ver, sourceName) ==
    [type |-> OntologyTerm(phenotype[TYPE], phenotype["id"], ver,
                           sourceName),
     description |-> phenotype[LABEL]]

toGA4GH(nss, ver, association) ==
    LET feature == association.feature
        phenotype == association.phenotype
        environment == association.environment
        sourceName == getPrefix(nss, getPrefixURL(nss, association.id))
    IN IF TYPE \notin DOMAIN feature \/ "id" \notin DOMAIN feature
       THEN Raise(KeyError)
       ELSE IF sourceName.err # NoError THEN sourceName
       ELSE IF LABEL \notin DOMAIN feature THEN Raise(KeyError)
       ELSE IF "id" \notin DOMAIN phenotype \/ "id" \notin DOMAIN environment
       THEN Raise(KeyError)
       ELSE IF TYPE \notin DOMAIN phenotype \/ LABEL \notin DOMAIN phenotype
       THEN Raise(KeyError)
       ELSE Return(
         [id |-> association.id,
          features |-> <<FeatureOf(feature, ver, sourceName.value)>>,
          description |->
              Description(association,
                          getIdentifier(nss, association.evidence)),
          evidence |-> EvidenceOf(nss, ver, association, sourceName.value),
          environmentalContexts |->
              EnvironmentalContextOf(ver, association, sourceName.value),
          phenotype |->
              PhenotypeInstanceOf(phenotype, ver, sourceName.value),
          phenotypeAssociationSetId |-> SetId])

(***************************************************************************)
(* getAssociations                                                         *)
(***************************************************************************)
\* variant: the values before the first exception are returned
CollectUntilError(outs) ==
    LET bad == {i \in 1..Len(outs) : outs[i].err # NoError}
        n == IF bad = {} THEN Len(outs)
             ELSE (CHOOSE i \in bad : \A j \in bad : i <= j) - 1
    IN Return([i \in 1..n |-> outs[i].value])

\* the first exception of a sequence of outcomes, else the list of values
Collect(outs) ==
    LET bad == {i \in 1..Len(outs) : outs[i].err # NoError}
    IN IF bad # {} THEN Raise(outs[CHOOSE i \in bad : \A j \in bad : i <= j].err)
       ELSE Return([i \in 1..Len(outs) |-> outs[i].value])

\* lines 126-206 on the rows the query gave
Materialize(graph, nss, ver, rows) ==
    LET uriRefs == extractAssociationsDetails(rows)
        associations_details == detailTuples(graph, uriRefs)
        kept == SelectSeq(rows, LAMBDA r : Bound(<<"?", "feature">>, r))
        associationList ==
            Collect([i \in 1..Len(kept) |->
                         Hydrate(kept[i], associations_details)])
        result ==
            IF associationList.err # NoError THEN associationList
            ELSE Collect([i \in 1..Len(kept) |->
                              toGA4GH(nss, ver, associationList.value[i])])
    IN [outcome |-> result, queries |-> 1, lookups |-> uriRefs]

\* variant: the list is cut to pageSize records from offset on
getAssociationsSliced(graph, nss, ver, feature, environment, phenotype, pageSize, offset) ==
    LET query == formatFilterQuery(nss, feature, environment, phenotype)
        slice(m) ==
            IF m.outcome.err # NoError \/ pageSize < 0 THEN m
            ELSE LET last == IF offset + pageSize > Len(m.outcome.value)
                             THEN Len(m.outcome.value)
                             ELSE offset + pageSize
                 IN [m EXCEPT !.outcome.value = SubSeq(@, offset + 1, last)]
    IN IF query.err # NoError
       THEN {[outcome |-> query, queries |-> 0, lookups |-> <<>>]}
       ELSE IF ~Parses(query.value)
       THEN {[outcome |-> Raise(ParseException), queries |-> 1,
              lookups |-> <<>>]}
       ELSE {slice(Materialize(graph, nss, ver, rows)) :
                 rows \in QueryResults(graph, query.value)}

\* every way a call can end: the outcome, the number of graph queries run
\* and the URIs looked up.  pageSize and offset are accepted and not used.
getAssociations(graph, nss, ver, feature, environment, phenotype, pageSize, offset) ==
    LET query == formatFilterQuery(nss, feature, environment, phenotype)
    IN IF query.err # NoError
       THEN {[outcome |-> query, queries |-> 0, lookups |-> <<>>]}
       ELSE IF ~Parses(query.value)
       THEN {[outcome |-> Raise(ParseException), queries |-> 1,
              lookups |-> <<>>]}
       ELSE {Materialize(graph, nss, ver, rows) :
                 rows \in QueryResults(graph, query.value)}


(***************************************************************************)
(* PhenotypeAssociationFeatureSet                                          *)
(***************************************************************************)
TypeError == "TypeError"

\* _filterSearchFeaturesRequest: one regex clause on ?feature_label for
\* each of reference_name, gene_symbol and name that is truthy; without a
\* clause the FILTER is left out
filterSearchFeaturesRequest(reference_name, gene_symbol, name) ==
    LET clause(v, pattern) ==
            IF Truthy(v)
            THEN << <<RegexOpen("feature")>> \o pattern \o <<RegexClose>> >>
            ELSE <<>>
        filters == clause(reference_name, <<"NOT SUPPORTED">>)
                   \o clause(gene_symbol, gene_symbol)
                   \o clause(name, name)
    IN QueryText(IF Len(filters) = 0 THEN <<>> ELSE FilterText(filters))

\* lines 161-167: every feature of every association, each with the next
\* page token, which is None throughout
RECURSIVE Yields(_)
Yields(associations) ==
    IF associations = <<>> THEN <<>>
    ELSE LET fs == Head(associations).features
         IN [i \in 1..Len(fs) |-> [feature |-> fs[i], nextPageToken |-> None]]
            \o Yields(Tail(associations))

\* getFeatures: every way the generator can run: an exception at the first
\* next(), or the sequence of (feature, nextPageToken) it yields.
\* start, end, featureTypes, parentId, pageToken and pageSize are not used.
getFeatures(graph, nss, ver, referenceName, geneSymbol, name, pageToken, pageSize) ==
    LET query == filterSearchFeaturesRequest(referenceName, geneSymbol, name)
        run(rows) ==
            LET m == Materialize(graph, nss, ver, rows)
            IN [m EXCEPT !.outcome =
                    IF @.err # NoError THEN @ ELSE Return(Yields(@.value))]
    IN IF ~Parses(query)
       THEN {[outcome |-> Raise(ParseException), queries |-> 1,
              lookups |-> <<>>]}
       ELSE {run(rows) : rows \in QueryResults(graph, query)}

\* "obolibrary" in featureType
IsObo(url) == Contains(url, <<"o/">>)

\* the objects of predicate p among the details, in their order
ValuesOf(details, p) ==
    LET hits == SelectSeq(details, LAMBDA d : d.predicate = p)
    IN [i \in 1..Len(hits) |-> hits[i].object]

\* list.sort(key=len): stable; the first shortest and the last longest
Shortest(labels) ==
    labels[CHOOSE i \in 1..Len(labels) :
               \A j \in 1..Len(labels) :
                   \/ Len(labels[i]) < Len(labels[j])
                   \/ Len(labels[i]) = Len(labels[j]) /\ i <= j]
Longest(labels) ==
    labels[CHOOSE i \in 1..Len(labels) :
               \A j \in 1..Len(labels) :
                   \/ Len(labels[i]) > Len(labels[j])
                   \/ Len(labels[i]) = Len(labels[j]) /\ i >= j]

\* getFeature: the feature of a URI.  Its type is the first OBO type; the
\* id of the type is the namespace of that type, which must be declared
\* (None cannot be stored in the field)
getFeature(graph, nss, featureId) ==
    LET featureDetails == detailTuples(graph, <<featureId>>)
        types == ValuesOf(featureDetails, TYPE)
        labels == ValuesOf(featureDetails, LABEL)
        obo == SelectSeq(types, IsObo)
        typeId == IF obo = <<>> THEN None ELSE getPrefixURL(nss, obo[1])
    IN [outcome |->
            IF types = <<>> THEN Raise(KeyError)
            ELSE IF obo # <<>> /\ typeId = None THEN Raise(TypeError)
            ELSE IF labels = <<>> THEN Raise(KeyError)
            ELSE Return([id |-> featureId,
                         feature_type |->
                             IF obo = <<>> THEN None
                             ELSE [term |-> obo[1], id |-> typeId],
                         gene_symbol |-> Shortest(labels),
                         name |-> Longest(labels),
                         attributes |->
                             [i \in 1..Len(featureDetails) |->
                                 <<featureDetails[i].predicate,
                                   featureDetails[i].object>>]]),
        queries |-> 0,
        lookups |-> <<featureId>>]

(***************************************************************************)
(* Loaded graphs and namespace tables                                      *)
(***************************************************************************)
A1 == <<"c/", "1">>
A2 == <<"x/", "2">>
F1 == <<"c/", "f1">>
F2 == <<"c/", "f2">>
E1 == <<"c/", "e1">>
E2 == <<"c/", "e2">>
P1 == <<"c/", "p1">>
P2 == <<"c/", "p2">>
Q1 == <<"c/", "q1">>
Q2 == <<"x/", "q2">>
V1 == <<"c/", "v1">>
SO == <<"o/", "SO_0001059">>
OMIM == <<"o/", "OMIM_606764">>

VersionTriple == Triple(CGD_TTL, VERSION_INFO, <<"v1">>)

\* two complete associations that share their environment and evidence type
BaseGraph ==
    << VersionTriple,
       Triple(A1, TYPE, OBAN_ASSOCIATION), Triple(A1, HAS_EVIDENCE, V1),
       Triple(A1, HAS_ENVIRONMENT, E1), Triple(A1, SOURCE, <<"s1">>),
       Triple(A1, HAS_SUBJECT, F1), Triple(A1, HAS_OBJECT, P1),
       Triple(A2, TYPE, OBAN_ASSOCIATION), Triple(A2, HAS_EVIDENCE, V1),
       Triple(A2, HAS_ENVIRONMENT, E1),
       Triple(A2, HAS_SUBJECT, F2), Triple(A2, HAS_OBJECT, P2),
       Triple(F1, LABEL, <<"a">>), Triple(F1, TYPE, SO),
       Triple(F2, LABEL, <<"a", "b">>), Triple(F2, TYPE, SO),
       Triple(E1, LABEL, <<"b">>),
       Triple(P1, LABEL, <<"a", "b">>), Triple(P1, TYPE, OMIM),
       Triple(P1, HAS_QUALITY, Q1),
       Triple(P2, LABEL, <<"b">>), Triple(P2, TYPE, OMIM),
       Triple(P2, HAS_QUALITY, Q2),
       Triple(V1, LABEL, <<"e">>) >>

Without(graph, t) == SelectSeq(graph, LAMBDA x : x # t)

\* the graphs a data directory can hold: nothing, the base graph, and the
\* base graph with triples missing or added
Graphs ==
    { <<>>,
      BaseGraph,
      Without(BaseGraph, VersionTriple),
      Without(BaseGraph, Triple(P1, HAS_QUALITY, Q1)),
      Without(BaseGraph, Triple(F2, TYPE, SO)),
      Without(BaseGraph, Triple(P2, TYPE, OMIM)),
      Without(BaseGraph, Triple(V1, LABEL, <<"e">>)),
      Without(BaseGraph, Triple(A2, HAS_ENVIRONMENT, E1)),
      BaseGraph \o <<Triple(P1, LABEL, <<"b">>)>>,
      <<Triple(P1, LABEL, <<"b">>)>> \o BaseGraph,
      BaseGraph \o <<Triple(A1, HAS_ENVIRONMENT, E2),
                     Triple(E2, LABEL, <<"a">>)>>,
      BaseGraph \o <<Triple(A1, SOURCE, <<"s2">>)>> }

Binding(prefix, namespace) == [prefix |-> prefix, namespace |-> namespace]

\* the bindings every rdflib graph has
DefaultNamespaces ==
    << Binding(<<"xml">>, <<"http://www.w3.org/XML/1998/namespace">>),
       Binding(<<"rdf">>, <<"http://www.w3.org/1999/02/22-rdf-syntax-ns#">>),
       Binding(<<"rdfs">>, <<"http://www.w3.org/2000/01/rdf-schema#">>),
       Binding(<<"xsd">>, <<"http://www.w3.org/2001/XMLSchema#">>) >>

\* the prefixes the files of a non-empty graph can declare
NamespaceTables ==
    { DefaultNamespaces \o <<Binding(<<"O">>, <<"o/">>),
                             Binding(<<"C">>, <<"c/">>),
                             Binding(<<"X">>, <<"x/">>)>>,
      DefaultNamespaces \o <<Binding(<<"C">>, <<"c/">>)>> }

(***************************************************************************)
(* Inputs                                                                  *)
(***************************************************************************)
Entity1(role) ==
    CASE role = "feature" -> F1 [] role = "environment" -> E1
      [] role = "phenotype" -> P1
LocalId2(role) ==
    CASE role = "feature" -> <<"f2">> [] role = "environment" -> <<"e2">>
      [] role = "phenotype" -> <<"p2">>

\* every contiguous part of pool with 1..n elements
Windows(pool, n) ==
    {SubSeq(pool, i, j) : i \in 1..Len(pool), j \in 1..Len(pool)}
        \cap {w \in {SubSeq(pool, i, j) : i \in 1..Len(pool),
                                          j \in 1..Len(pool)} :
                  Len(w) >= 1 /\ Len(w) <= n}

ExternalId(database, identifier) ==
    [database |-> database, identifier |-> identifier]
Term(id, term) == [id |-> id, term |-> term]

IdPool(role) ==
    << ExternalId(<<"c/">>, Tail(Entity1(role))),
       ExternalId(<<"c/">>, LocalId2(role)),
       ExternalId(<<"d/">>, <<"3">>) >>

\* a term with an explicit id, a term under a prefix the tables bind, a
\* term with an empty id under a prefix no table binds, a term without ':'
TermPool(role) ==
    << Term(Entity1(role), <<"C", ":">> \o LocalId2(role)),
       Term(None, <<"C", ":">> \o LocalId2(role)),
       Term(<<>>, <<"Z", ":">> \o LocalId2(role)),
       Term(None, LocalId2(role)) >>

Strings == {<<>>, <<"a">>, <<"b">>}

\* the criteria tried alone, beside basic criteria of the other roles
Rich(role) ==
    {NoCriterion} \cup {StrCriterion(s) : s \in Strings}
    \cup {DictCriterion(<<>>, <<>>)}
    \cup {DictCriterion(ids, <<>>) : ids \in Windows(IdPool(role), MaxTerms)}
    \cup {DictCriterion(<<>>, ts) : ts \in Windows(TermPool(role), MaxTerms)}
    \cup {DictCriterion(<<IdPool(role)[2]>>, <<TermPool(role)[1]>>)}

Basic(role) ==
    { NoCriterion, StrCriterion(<<"a">>),
      DictCriterion(<<>>, <<TermPool(role)[1]>>) }

\* the (feature, environment, phenotype) triples of the calls: at most one
\* role carries a criterion that is not basic
CallArgs ==
    {c \in Rich("feature") \X Rich("environment") \X Rich("phenotype") :
        Cardinality({i \in 1..3 : c[i] \notin Basic(Roles[i])}) <= 1}

\* pageSize=None (the default) is written -1
PageSizes == {-1} \cup 0..MaxPage
Offsets == 0..MaxPage

TermStrings ==
    { <<"C", ":", "f1">>, <<"X", ":", "2">>, <<"Z", ":", "f1">>,
      <<"f1">>, <<"C", ":", "f1", ":", "1">>, <<"C", ":">> }

(***************************************************************************)
(* Dataset (ga4gh/datamodel/datasets.py)                                   *)
(***************************************************************************)
\* the kinds of object a dataset holds
Kinds ==
    { "VariantSet", "FeatureSet", "ReadGroupSet", "BioSample", "Individual",
      "PhenotypeAssociationSet" }

\* lines 31-48: _xIds = [], _xIdMap = {}, _xNameMap = {} for every kind
EmptyContainer == [ids |-> <<>>, idMap |-> <<>>, nameMap |-> <<>>]
EmptyDataset == [k \in Kinds |-> EmptyContainer]
NothingAdded == [k \in Kinds |-> <<>>]

\* an object of a kind: getId() is made from its local id, its name is its
\* local id, and serial tells two objects with the same local id apart
DatasetObject(localId, serial) ==
    [id |-> <<"id", localId>>, name |-> localId, serial |-> serial]

LocalIds == {"a", "b"}

\* addVariantSet, addBioSample, addIndividual, addFeatureSet,
\* addReadGroupSet, addPhenotypeAssociationSet: all six do the same
addTo(container, object) ==
    [ids |-> Append(container.ids, object.id),
     idMap |-> DictSet(container.idMap, object.id, object),
     nameMap |-> DictSet(container.nameMap, object.name, object)]

(***************************************************************************)
(* State machine                                                           *)
(***************************************************************************)
\* the latest direct _formatFilterQuery call: whether getAssociations ran
\* since (between), and whether it repeats the arguments of the direct
\* call before it with a getAssociations call in between (again)
NoCall == [op |-> "none", args |-> None, outcome |-> None,
           between |-> FALSE, again |-> FALSE]

\* no feature search in progress
NoSession == [open |-> FALSE, failed |-> FALSE, name |-> None, pageSize |-> -1,
              pageToken |-> None, pages |-> <<>>]

Init ==
    /\ rdfGraph \in Graphs
    /\ namespaces \in IF rdfGraph = <<>> THEN {DefaultNamespaces}
                      ELSE NamespaceTables
    /\ version = ExtractVersion(rdfGraph)
    /\ pc = "idle"
    /\ op = "none"
    /\ args = None
    /\ outcome = None
    /\ queries = 0
    /\ lookups = <<>>
    /\ lastFormat = NoCall
    /\ session = NoSession
    /\ dataset = EmptyDataset
    /\ added = NothingAdded

\* self._rdfGraph.query() and .triples() read the store and the namespace
\* manager and leave them as they are
\* variant: a query consumes the first triple
GraphAfterQueryConsumes(graph) == IF graph = <<>> THEN graph ELSE Tail(graph)
GraphAfterQuery(graph) == graph
\* variant: a query drops the binding declared last
NamespacesAfterQueryUnbinds(nss) == SubSeq(nss, 1, Len(nss) - 1)
NamespacesAfterQuery(nss) == nss

GetAssociationsOn(Args, Sizes, Offs) ==
    /\ pc = "idle"
    /\ \E c \in Args, pageSize \in Sizes, offset \in Offs :
         \E r \in getAssociations(rdfGraph, namespaces, version,
                                  c[1], c[2], c[3], pageSize, offset) :
            /\ op' = "getAssociations"
            /\ args' = [feature |-> c[1], environment |-> c[2],
                        phenotype |-> c[3], pageSize |-> pageSize,
                        offset |-> offset]
            /\ outcome' = r.outcome
            /\ queries' = r.queries
            /\ lookups' = r.lookups
            /\ rdfGraph' = IF r.queries > 0 THEN GraphAfterQuery(rdfGraph)
                           ELSE rdfGraph
            /\ namespaces' = IF r.queries > 0
                             THEN NamespacesAfterQuery(namespaces)
                             ELSE namespaces
    /\ pc' = "done"
    /\ lastFormat' = IF lastFormat.op = "none" THEN lastFormat
                     ELSE [lastFormat EXCEPT !.between = TRUE]
    /\ UNCHANGED <<version, session,
                   dataset, added>>

FormatFilterQueryOn(Args) ==
    /\ pc = "idle"
    /\ \E c \in Args :
         /\ op' = "formatFilterQuery"
         /\ args' = [feature |-> c[1], environment |-> c[2],
                     phenotype |-> c[3]]
         /\ outcome' = formatFilterQuery(namespaces, c[1], c[2], c[3])
         /\ lastFormat' =
                [op |-> op', args |-> args', outcome |-> outcome',
                 between |-> FALSE,
                 again |-> /\ lastFormat.op = "formatFilterQuery"
                           /\ lastFormat.between
                           /\ lastFormat.args = args']
    /\ pc' = "done"
    /\ queries' = 0
    /\ lookups' = <<>>
    /\ UNCHANGED <<rdfGraph, namespaces, version, session,
                   dataset, added>>

GetAssociations == GetAssociationsOn(CallArgs, PageSizes, Offsets)

FormatFilterQuery == FormatFilterQueryOn(CallArgs)

ToNamespaceURL ==
    /\ pc = "idle"
    /\ \E term \in TermStrings :
         /\ op' = "toNamespaceURL"
         /\ args' = [term |-> term]
         /\ outcome' = toNamespaceURL(namespaces, term)
    /\ pc' = "done"
    /\ queries' = 0
    /\ lookups' = <<>>
    /\ UNCHANGED <<rdfGraph, namespaces, version, lastFormat, session,
                   dataset, added>>

(***************************************************************************)
(* SimulatedPhenotypeAssociationSet                                        *)
(***************************************************************************)
\* bool(c) of a criterion.  The model's dict keeps the values of 'ids' and
\* 'terms' only, so a dict with neither is {} (false) or a dict whose
\* entries are empty (true)
TruthValues(c) ==
    IF IsNone(c) THEN {FALSE}
    ELSE IF IsStr(c) THEN {c.str # <<>>}
    ELSE IF NonEmpty(c.ids) \/ NonEmpty(c.terms) THEN {TRUE}
    ELSE {TRUE, FALSE}

\* lines 46-54: the synthetic association
SyntheticAssociation ==
    [id |-> <<"test">>, features |-> <<>>, evidence |-> <<>>,
     environmentalContexts |-> <<>>,
     phenotype |-> [type |-> [id |-> <<"test">>]],
     phenotypeAssociationSetId |-> SetId]

\* variant: only the feature criterion is tested
simulatedGetAssociationsFeatureOnly(feature, environment, phenotype, pageSize, offset) ==
    {IF f THEN Return(<<SyntheticAssociation>>) ELSE Return(<<>>) :
        f \in TruthValues(feature)}

\* SimulatedPhenotypeAssociationSet.getAssociations: every way a call can
\* end
simulatedGetAssociations(feature, environment, phenotype, pageSize, offset) ==
    {IF f \/ e \/ p THEN Return(<<SyntheticAssociation>>) ELSE Return(<<>>) :
        f \in TruthValues(feature), e \in TruthValues(environment),
        p \in TruthValues(phenotype)}

\* the criteria a call of the simulated set is made with: per role absent,
\* the empty string, a string, a dict without and with a term
SimulatedCriteria(role) ==
    { NoCriterion, StrCriterion(<<>>), StrCriterion(<<"a">>),
      DictCriterion(<<>>, <<>>), DictCriterion(<<>>, <<TermPool(role)[1]>>) }

SimulatedArgs ==
    SimulatedCriteria("feature") \X SimulatedCriteria("environment")
        \X SimulatedCriteria("phenotype")

SimulatedGetAssociations ==
    /\ pc = "idle"
    /\ \E c \in SimulatedArgs, pageSize \in PageSizes, offset \in Offsets :
         \E r \in simulatedGetAssociations(c[1], c[2], c[3], pageSize, offset) :
            /\ op' = "simulatedGetAssociations"
            /\ args' = [feature |-> c[1], environment |-> c[2],
                        phenotype |-> c[3], pageSize |-> pageSize,
                        offset |-> offset]
            /\ outcome' = r
    /\ pc' = "done"
    /\ queries' = 0
    /\ lookups' = <<>>
    /\ UNCHANGED <<rdfGraph, namespaces, version, lastFormat, session,
                   dataset, added>>

(***************************************************************************)
(* Calls on the feature set and URI lookups                                *)
(***************************************************************************)
\* (referenceName, geneSymbol, name) of the feature searches
FeatureRequests ==
    { <<None, None, None>>, <<None, None, <<>> >>, <<None, None, <<"a">> >>,
      <<None, None, <<"b">> >>, <<None, <<"a">>, <<"b">> >>,
      <<<<"r">>, None, <<"a">> >> }

PageTokens == {None, <<"1">>}

GetFeatures ==
    /\ pc = "idle"
    /\ \E c \in FeatureRequests, pageToken \in PageTokens,
          pageSize \in PageSizes :
         \E r \in getFeatures(rdfGraph, namespaces, version, c[1], c[2], c[3],
                              pageToken, pageSize) :
            /\ op' = "getFeatures"
            /\ args' = [referenceName |-> c[1], geneSymbol |-> c[2],
                        name |-> c[3], pageToken |-> pageToken,
                        pageSize |-> pageSize]
            /\ outcome' = r.outcome
            /\ queries' = r.queries
            /\ lookups' = r.lookups
            /\ rdfGraph' = GraphAfterQuery(rdfGraph)
            /\ namespaces' = NamespacesAfterQuery(namespaces)
    /\ pc' = "done"
    /\ UNCHANGED <<version, lastFormat, session,
                   dataset, added>>

\* URIs looked up: a namespace, URIs under a namespace, a URI under none
Urls == { <<"c/">>, F1, F2, E1, A2, SO, <<"d/", "1">> }

GetFeature ==
    /\ pc = "idle"
    /\ \E featureId \in Urls :
         LET r == getFeature(rdfGraph, namespaces, featureId)
         IN /\ op' = "getFeature"
            /\ args' = [featureId |-> featureId]
            /\ outcome' = r.outcome
            /\ queries' = r.queries
            /\ lookups' = r.lookups
    /\ pc' = "done"
    /\ UNCHANGED <<rdfGraph, namespaces, version, lastFormat, session,
                   dataset, added>>

\* a call of the lookup name; results gives its outcome for every URI
LookupOn(name, results) ==
    /\ pc = "idle"
    /\ \E url \in Urls :
         /\ op' = name
         /\ args' = [url |-> url]
         /\ outcome' = results[url]
    /\ pc' = "done"
    /\ queries' = 0
    /\ lookups' = <<>>
    /\ UNCHANGED <<rdfGraph, namespaces, version, lastFormat, session,
                   dataset, added>>

\* _getDetails(uriRef, _detailTuples([uriRef])): the detail dictionary of a
\* URI
GetDetails ==
    /\ pc = "idle"
    /\ \E url \in Urls \cup {P1} :
         /\ op' = "getDetails"
         /\ args' = [url |-> url]
         /\ outcome' = Return(getDetails(url, detailTuples(rdfGraph, <<url>>)))
         /\ lookups' = <<url>>
    /\ pc' = "done"
    /\ queries' = 0
    /\ UNCHANGED <<rdfGraph, namespaces, version, lastFormat, session,
                   dataset, added>>

GetPrefix ==
    LookupOn("getPrefix", [url \in Urls |-> getPrefix(namespaces, url)])

GetPrefixURL ==
    LookupOn("getPrefixURL",
             [url \in Urls |-> Return(getPrefixURL(namespaces, url))])

GetIdentifier ==
    LookupOn("getIdentifier",
             [url \in Urls |-> Return(getIdentifier(namespaces, url))])

\* the caller has the outcome; everything built for the call is dropped
Finish ==
    /\ pc = "done"
    /\ pc' = "idle"
    /\ op' = "none"
    /\ args' = None
    /\ outcome' = None
    /\ queries' = 0
    /\ lookups' = <<>>
    /\ lastFormat' = NoCall
    /\ UNCHANGED <<rdfGraph, namespaces, version, session,
                   dataset, added>>

Next ==
    \/ GetDetails
    \/ GetAssociations
    \/ FormatFilterQuery
    \/ ToNamespaceURL
    \/ SimulatedGetAssociations
    \/ GetFeatures
    \/ GetFeature
    \/ GetPrefix
    \/ GetPrefixURL
    \/ GetIdentifier
    \/ Finish

Spec == Init /\ [][Next]_vars

(***************************************************************************)
(* Sequences of calls on one association set: the caller goes on after a   *)
(* call and the latest direct _formatFilterQuery call is remembered        *)
(***************************************************************************)
\* criteria of the repeated calls: absent, a string, a term that is
\* resolved through the namespace table
Probe(role) ==
    { NoCriterion, StrCriterion(<<"a">>),
      DictCriterion(<<>>, <<TermPool(role)[2]>>) }

ProbeArgs == Probe("feature") \X Probe("environment") \X Probe("phenotype")

ProbeGetAssociations == GetAssociationsOn(ProbeArgs, {-1}, {0})

ProbeFormatFilterQuery == FormatFilterQueryOn(ProbeArgs)

Continue ==
    /\ pc = "done"
    /\ pc' = "idle"
    /\ op' = "none"
    /\ args' = None
    /\ outcome' = None
    /\ queries' = 0
    /\ lookups' = <<>>
    /\ UNCHANGED <<rdfGraph, namespaces, version, lastFormat, session,
                   dataset, added>>

NextCalls == ProbeGetAssociations \/ ProbeFormatFilterQuery \/ Continue

SpecCalls == Init /\ [][NextCalls]_vars


(***************************************************************************)
(* A client paging through a feature search                                *)
(***************************************************************************)
\* the search response built from a run of getFeatures: the features are
\* taken from the generator until the page is full, and the next page
\* token is the one yielded with the last feature taken
SearchResponse(yielded, pageSize) ==
    IF yielded.err # NoError THEN yielded
    ELSE LET ys == yielded.value
             n == IF pageSize > 0 /\ pageSize < Len(ys) THEN pageSize
                  ELSE Len(ys)
         IN Return([features |-> [i \in 1..n |-> ys[i].feature],
                    next_page_token |->
                        IF n = 0 THEN None ELSE ys[n].nextPageToken])

SearchNames == { None, <<"a">>, <<"b">>, <<"a", "b">> }

StartSearch ==
    /\ session = NoSession
    /\ \E name \in SearchNames, pageSize \in {-1, 1} :
         session' = [NoSession EXCEPT !.open = TRUE, !.name = name,
                                      !.pageSize = pageSize]
    /\ UNCHANGED <<rdfGraph, namespaces, version, pc, op, args, outcome,
                   queries, lookups, lastFormat, dataset, added>>

\* one request of the search: the page token is the one of the response
\* before; the search is over when the response has no next page token
SearchFeaturesPage ==
    /\ session.open
    /\ Len(session.pages) < MaxPages
    /\ \E r \in getFeatures(rdfGraph, namespaces, version, None, None,
                            session.name, session.pageToken,
                            session.pageSize) :
         LET response == SearchResponse(r.outcome, session.pageSize)
             token == IF response.err # NoError THEN None
                      ELSE response.value.next_page_token
         IN /\ op' = "searchFeatures"
            /\ args' = [name |-> session.name,
                        pageSize |-> session.pageSize,
                        pageToken |-> session.pageToken]
            /\ outcome' = response
            /\ queries' = r.queries
            /\ lookups' = r.lookups
            /\ session' =
                 [session EXCEPT
                    !.open = token # None,
                    !.failed = response.err # NoError,
                    !.pageToken = token,
                    !.pages = IF response.err # NoError THEN @
                              ELSE Append(@, [i \in 1..Len(response.value.features)
                                                |-> response.value.features[i].id])]
    /\ rdfGraph' = GraphAfterQuery(rdfGraph)
    /\ namespaces' = NamespacesAfterQuery(namespaces)
    /\ UNCHANGED <<version, pc, lastFormat, dataset, added>>

NextPaging == StartSearch \/ SearchFeaturesPage

SpecPaging == Init /\ [][NextPaging]_vars

(***************************************************************************)
(* Construction: __init__ loads the files of the data directory            *)
(***************************************************************************)
AttributeError == "AttributeError"
ParseError == "ParseError"

\* a file of the data directory: the extension of its name, the syntax its
\* content is written in ("bad" for content in no syntax) and its triples
DataFile(ext, syntax, triples) ==
    [ext |-> ext, syntax |-> syntax, triples |-> triples]

FileContents ==
    { <<VersionTriple>>,
      <<Triple(A1, TYPE, OBAN_ASSOCIATION), Triple(A1, HAS_SUBJECT, F1)>> }

DataFiles ==
    { DataFile(x[1], x[2], x[3]) :
        x \in {"ttl", "xml"} \X {"n3", "xml", "bad"} \X FileContents }

RECURSIVE Listings(_)
\* the listings of n files
Listings(n) ==
    IF n = 0 THEN { <<>> }
    ELSE { Append(l, f) : l \in Listings(n - 1), f \in DataFiles }

\* the dataDir argument: None, or a directory with the files of a listing
NoDataDir == [isNone |-> TRUE, listing |-> <<>>]
DataDir(listing) == [isNone |-> FALSE, listing |-> listing]

\* no directory, or a directory of 1..MaxFiles files
DataDirs ==
    {NoDataDir}
    \cup { DataDir(l) : l \in UNION { Listings(n) : n \in 1..MaxFiles } }

\* _scanDataFiles(dataDir, ['*.ttl', '*.xml']): the files that match the
\* first pattern, then the files that match the second
ScanOrder(dataDir) ==
    SelectSeq(dataDir.listing, LAMBDA f : f.ext = "ttl")
    \o SelectSeq(dataDir.listing, LAMBDA f : f.ext = "xml")

\* lines 278-281: a .ttl name is parsed as n3, any other name as xml
FormatOf(filename) == IF filename.ext = "ttl" THEN "n3" ELSE "xml"

\* the prefix a data file declares
FilePrefixes == <<Binding(<<"C">>, <<"c/">>)>>

\* the bindings after a parsed file has declared its prefixes
Bind(nss, declared) ==
    nss \o SelectSeq(declared,
                     LAMBDA b : \A j \in 1..Len(nss) : nss[j] # b)

\* self._rdfGraph.parse(filename, format): content written in the format
\* is added whole; on any other content the parser fails, after it has
\* added the triples it had read up to the error
parse(graph, nss, file, format) ==
    IF file.syntax = format
    THEN { [err |-> NoError, graph |-> graph \o file.triples,
            namespaces |-> Bind(nss, FilePrefixes)] }
    ELSE { [err |-> ParseError,
            graph |-> graph \o SubSeq(file.triples, 1, k),
            namespaces |-> nss] : k \in 0..Len(file.triples) - 1 }

\* lines 276-281
addDataFile(graph, nss, filename) ==
    parse(graph, nss, filename, FormatOf(filename))

\* lines 77-80: the exceptions of the scan that __init__ passes over
\* variant: a bare except clause
PassedOverAny(exception) == TRUE
PassedOver(exception) == exception = AttributeError

\* the state of __init__ after the scan has raised exception
AfterRaise(exception) ==
    IF PassedOver(exception)
    THEN pc' = "version" /\ outcome' = None
    ELSE pc' = "done" /\ outcome' = Raise(exception)

InitLoad ==
    /\ rdfGraph = <<>>
    /\ namespaces = DefaultNamespaces
    /\ version = None
    /\ pc = "idle"
    /\ op = "none"
    /\ args = None
    /\ outcome = None
    /\ queries = 0
    /\ lookups = <<>>
    /\ lastFormat = NoCall
    /\ session = NoSession
    /\ dataset = EmptyDataset
    /\ added = NothingAdded

\* lines 67-76: a new association set with an empty graph
Construct ==
    /\ pc = "idle"
    /\ \E dataDir \in DataDirs :
         args' = [dataDir |-> dataDir,
                  files |-> IF dataDir.isNone THEN <<>>
                            ELSE ScanOrder(dataDir)]
    /\ op' = "__init__"
    /\ pc' = "scan"
    /\ rdfGraph' = <<>>
    /\ namespaces' = DefaultNamespaces
    /\ version' = None
    /\ UNCHANGED <<outcome, queries, lookups, lastFormat, session,
                   dataset, added>>

\* the scan of no directory: joining None with a pattern raises
ScanNoDirectory ==
    /\ pc = "scan"
    /\ args.dataDir.isNone
    /\ AfterRaise(AttributeError)
    /\ UNCHANGED <<rdfGraph, namespaces, version, op, args, queries,
                   lookups, lastFormat, session,
                   dataset, added>>

\* the scan adds the next file to the graph
AddDataFile ==
    /\ pc = "scan"
    /\ ~args.dataDir.isNone
    /\ args.files # <<>>
    /\ \E r \in addDataFile(rdfGraph, namespaces, Head(args.files)) :
         /\ rdfGraph' = r.graph
         /\ namespaces' = r.namespaces
         /\ IF r.err = NoError
            THEN /\ args' = [args EXCEPT !.files = Tail(@)]
                 /\ UNCHANGED <<pc, outcome>>
            ELSE /\ AfterRaise(r.err)
                 /\ UNCHANGED args
    /\ UNCHANGED <<version, op, queries, lookups, lastFormat, session,
                   dataset, added>>

\* the scan has added every file
ScanEnds ==
    /\ pc = "scan"
    /\ ~args.dataDir.isNone
    /\ args.files = <<>>
    /\ pc' = "version"
    /\ UNCHANGED <<rdfGraph, namespaces, version, op, args, outcome,
                   queries, lookups, lastFormat, session,
                   dataset, added>>

\* lines 82-88: the version is read from the graph and __init__ returns
SetVersion ==
    /\ pc = "version"
    /\ version' = ExtractVersion(rdfGraph)
    /\ outcome' = Return(None)
    /\ pc' = "done"
    /\ UNCHANGED <<rdfGraph, namespaces, op, args, queries, lookups,
                   lastFormat, session,
                   dataset, added>>

NextLoad ==
    \/ Construct
    \/ ScanNoDirectory
    \/ AddDataFile
    \/ ScanEnds
    \/ SetVersion
    \/ Finish

SpecLoad == InitLoad /\ [][NextLoad]_vars

(***************************************************************************)
(* Dataset: adding objects and looking them up                             *)
(***************************************************************************)
IndexError == "IndexError"

\* the exception each getX(id_) raises for an id that is not in the id map;
\* getPhenotypeAssociationSet indexes the map without a test
NotFoundException(kind) ==
    CASE kind = "VariantSet" -> "VariantSetNotFoundException"
      [] kind = "FeatureSet" -> "FeatureSetNotFoundException"
      [] kind = "ReadGroupSet" -> "ReadGroupNotFoundException"
      [] kind = "BioSample" -> "BioSampleNotFoundException"
      [] kind = "Individual" -> "IndividualNotFoundException"
      [] kind = "PhenotypeAssociationSet" -> KeyError

\* the exception each getXByName(name) raises for an unknown name
NameNotFoundException(kind) ==
    CASE kind = "VariantSet" -> "VariantSetNameNotFoundException"
      [] kind = "FeatureSet" -> "FeatureSetNameNotFoundException"
      [] kind = "ReadGroupSet" -> "ReadGroupSetNameNotFoundException"
      [] kind = "BioSample" -> "BioSampleNameNotFoundException"
      [] kind = "Individual" -> "IndividualNameNotFoundException"
      [] kind = "PhenotypeAssociationSet" -> "DatasetNameNotFoundException"

\* getX(id_)
getById(container, kind, id) ==
    IF id \notin DOMAIN container.idMap
    THEN Raise(NotFoundException(kind))
    ELSE Return(container.idMap[id])

\* getXByName(name)
getByName(container, kind, name) ==
    IF name \notin DOMAIN container.nameMap
    THEN Raise(NameNotFoundException(kind))
    ELSE Return(container.nameMap[name])

\* getXByIndex(index): self._xIdMap[self._xIds[index]], where a negative
\* index counts from the end of the list
getByIndex(container, index) ==
    LET n == Len(container.ids)
    IN IF index >= n \/ index < -n THEN Raise(IndexError)
       ELSE Return(container.idMap[
                container.ids[IF index < 0 THEN n + index + 1
                              ELSE index + 1]])

\* the orders in which the keys S of a dict can be iterated
Orders(S) ==
    { o \in [1..Cardinality(S) -> S] :
        \A i, j \in 1..Cardinality(S) : i # j => o[i] # o[j] }

\* getXs(): the objects of the id list in its order; for the phenotype
\* association sets, the objects of the keys of the id map in the order
\* of the dict
getAll(container, kind) ==
    IF kind = "PhenotypeAssociationSet"
    THEN { Return([i \in 1..Len(o) |-> container.idMap[o[i]]]) :
             o \in Orders(DOMAIN container.idMap) }
    ELSE { Return([i \in 1..Len(container.ids) |->
                      container.idMap[container.ids[i]]]) }

\* getNumXs()
getNum(container) == Return(Len(container.ids))

RECURSIVE Sum(_)
Sum(lengths) ==
    IF lengths = {} THEN 0
    ELSE LET k == CHOOSE x \in lengths : TRUE
         IN k[2] + Sum(lengths \ {k})

\* the number of objects added so far, over all kinds
NumAdded == Sum({<<k, Len(added[k])>> : k \in Kinds})

\* the ids and names the getters are called with: one of them is never added
LookupIds == {<<"id", l>> : l \in LocalIds \cup {"c"}}
LookupNames == LocalIds \cup {"c"}
Indexes == -1..MaxAdds

\* a getter of the dataset returns
DatasetCall(name, arguments, result) ==
    /\ pc = "idle"
    /\ pc' = "done"
    /\ op' = name
    /\ args' = arguments
    /\ outcome' = result
    /\ UNCHANGED <<rdfGraph, namespaces, version, queries, lookups,
                   lastFormat, session, dataset, added>>

Add ==
    /\ pc = "idle"
    /\ NumAdded < MaxAdds
    /\ \E kind \in Kinds, localId \in LocalIds :
         LET object == DatasetObject(localId, NumAdded + 1)
         IN /\ dataset' = [dataset EXCEPT ![kind] = addTo(@, object)]
            /\ added' = [added EXCEPT ![kind] = Append(@, object)]
            /\ args' = [kind |-> kind, object |-> object]
    /\ op' = "add"
    /\ outcome' = Return(None)
    /\ pc' = "done"
    /\ UNCHANGED <<rdfGraph, namespaces, version, queries, lookups,
                   lastFormat, session>>

GetById ==
    \E kind \in Kinds, id \in LookupIds :
        DatasetCall("get", [kind |-> kind, id |-> id],
                    getById(dataset[kind], kind, id))

GetByName ==
    \E kind \in Kinds, name \in LookupNames :
        DatasetCall("getByName", [kind |-> kind, name |-> name],
                    getByName(dataset[kind], kind, name))

GetByIndex ==
    \E kind \in Kinds, index \in Indexes :
        DatasetCall("getByIndex", [kind |-> kind, index |-> index],
                    getByIndex(dataset[kind], index))

GetAll ==
    \E kind \in Kinds :
        \E result \in getAll(dataset[kind], kind) :
            DatasetCall("getAll", [kind |-> kind], result)

GetNum ==
    \E kind \in Kinds :
        DatasetCall("getNum", [kind |-> kind], getNum(dataset[kind]))

NextDataset ==
    \/ Add
    \/ GetById
    \/ GetByName
    \/ GetByIndex
    \/ GetAll
    \/ GetNum
    \/ Finish

\* a new dataset; no graph is involved
InitDataset == Init /\ rdfGraph = <<>>

SpecDataset == InitDataset /\ [][NextDataset]_vars

(***************************************************************************)
(* From a term to its URI and back                                         *)
(***************************************************************************)
\* namespace tables in which one namespace is the beginning of another,
\* in both orders of iteration, beside the tables without such a pair
ResolveTables ==
    NamespaceTables
    \cup { DefaultNamespaces \o <<Binding(<<"C">>, <<"c/">>),
                                  Binding(<<"CX">>, <<"c/", "x/">>)>>,
           DefaultNamespaces \o <<Binding(<<"CX">>, <<"c/", "x/">>),
                                  Binding(<<"C">>, <<"c/">>)>> }

LocalNames == { <<"1">>, <<"2">>, <<"f1">>, <<"a", "b">>, <<"1", "2">> }

InitResolve ==
    /\ rdfGraph = BaseGraph
    /\ namespaces \in ResolveTables
    /\ version = ExtractVersion(rdfGraph)
    /\ pc = "idle"
    /\ op = "none"
    /\ args = None
    /\ outcome = None
    /\ queries = 0
    /\ lookups = <<>>
    /\ lastFormat = NoCall
    /\ session = NoSession
    /\ dataset = EmptyDataset
    /\ added = NothingAdded

\* _toNamespaceURL of 'prefix:localId', then _getIdentifier and
\* _getPrefix(_getPrefixURL()) of the URI it gave
RoundTrip ==
    /\ pc = "idle"
    /\ \E j \in 1..Len(namespaces), localId \in LocalNames :
         LET prefix == namespaces[j].prefix
             url == toNamespaceURL(namespaces, prefix \o <<":">> \o localId)
         IN /\ args' = [prefix |-> prefix, localId |-> localId]
            /\ outcome' =
                 IF url.err # NoError THEN url
                 ELSE Return(
                    [url |-> url.value,
                     identifier |-> getIdentifier(namespaces, url.value),
                     prefix |-> getPrefix(namespaces,
                                   getPrefixURL(namespaces, url.value))])
    /\ op' = "roundTrip"
    /\ pc' = "done"
    /\ queries' = 0
    /\ lookups' = <<>>
    /\ UNCHANGED <<rdfGraph, namespaces, version, lastFormat, session,
                   dataset, added>>

NextResolve == RoundTrip \/ Finish

SpecResolve == InitResolve /\ [][NextResolve]_vars

(***************************************************************************)
(* What the criteria mean, stated on the graph (not on the query text)     *)
(***************************************************************************)
Called(o) == pc = "done" /\ op = o

AllAbsent(a) ==
    IsNone(a.feature) /\ IsNone(a.environment) /\ IsNone(a.phenotype)

CriterionOf(a, role) ==
    CASE role = "feature" -> a.feature
      [] role = "environment" -> a.environment
      [] role = "phenotype" -> a.phenotype

Colons(s) == Cardinality({i \in 1..Len(s) : s[i] = ":"})

\* the URIs a term stands for: its id, else namespace + localId for the
\* binding of its prefix
TermUris(t) ==
    IF t.id # None /\ t.id # <<>> THEN {t.id}
    ELSE IF Colons(t.term) # 1 THEN {}
    ELSE {namespaces[i].namespace
              \o SubSeq(t.term, Len(namespaces[i].prefix) + 2, Len(t.term)) :
            i \in {j \in 1..Len(namespaces) :
                     StartsWith(t.term, namespaces[j].prefix \o <<":">>)}}

\* every term of every criterion stands for a URI
Resolvable(a) ==
    \A r \in 1..Len(Roles) :
        LET c == CriterionOf(a, Roles[r])
        IN \A i \in 1..Len(c.terms) : TermUris(c.terms[i]) # {}

\* a criterion constrains its own role: a string the label, identifiers and
\* terms the URI; an empty string or list constrains nothing
CriterionHolds(sol, role, c) ==
    /\ IsStr(c) /\ c.str # <<>> => Contains(LabelOf(sol, role), c.str)
    /\ IsDict(c) /\ c.ids # <<>> =>
          \E i \in 1..Len(c.ids) :
              UriOf(sol, role) = c.ids[i].database \o c.ids[i].identifier
    /\ IsDict(c) /\ c.terms # <<>> =>
          \E i \in 1..Len(c.terms) : UriOf(sol, role) \in TermUris(c.terms[i])

MatchingSolutions(a) ==
    {sol \in PatternSolutions(rdfGraph) :
        \A r \in 1..Len(Roles) :
            CriterionHolds(sol, Roles[r], CriterionOf(a, Roles[r]))}

\* the associations of the graph that satisfy the criteria
Matching(a) == {sol.association : sol \in MatchingSolutions(a)}

Returned == outcome.err = NoError
RecordIds == {outcome.value[i].id : i \in 1..Len(outcome.value)}

\* the number of criteria that contribute a clause
Contributions(a) ==
    Cardinality({r \in 1..Len(Roles) :
        IsStr(CriterionOf(a, Roles[r])) /\ CriterionOf(a, Roles[r]).str # <<>>})
    + Cardinality({r \in 1..Len(Roles) :
        IsDict(CriterionOf(a, Roles[r])) /\ CriterionOf(a, Roles[r]).ids # <<>>})
    + Cardinality({r \in 1..Len(Roles) :
        IsDict(CriterionOf(a, Roles[r])) /\ CriterionOf(a, Roles[r]).terms # <<>>})

(***************************************************************************)
(* Properties                                                              *)
(***************************************************************************)
InvalidArgumentError == "InvalidArgumentError"

\* C1: getAssociations with feature, environment and phenotype all absent
\* fails with InvalidArgumentError, whatever pageSize and offset are, and
\* runs no graph query.
C1_NoFilterIsInvalidArgument ==
    Called("getAssociations") /\ AllAbsent(args) =>
        outcome.err = InvalidArgumentError /\ queries = 0

\* C2: criteria that are not all absent and match no association of the
\* graph give an empty list and no exception.
C2_NoMatchGivesEmptyList ==
    Called("getAssociations") /\ ~AllAbsent(args) /\ Resolvable(args)
    /\ Matching(args) = {} =>
        outcome = Return(<<>>)

\* C3: when exactly N associations of the graph satisfy the criteria,
\* getAssociations returns N records, one per matching association.
C3_OneRecordPerMatch ==
    Called("getAssociations") /\ ~AllAbsent(args) /\ Resolvable(args) =>
        /\ Returned
        /\ Len(outcome.value) = Cardinality(Matching(args))
        /\ RecordIds = Matching(args)

\* C4: when a feature-label filter matches exactly one association,
\* getAssociations returns one record; its id is the association's URI and
\* its phenotype description is the rdfs:label of the association's
\* phenotype in the graph.
C4_SingleMatch ==
    Called("getAssociations") /\ IsStr(args.feature) /\ args.feature.str # <<>>
    /\ Resolvable(args) /\ Cardinality(Matching(args)) = 1 =>
        /\ Returned
        /\ Len(outcome.value) = 1
        /\ outcome.value[1].id \in Matching(args)
        /\ \E p \in Objects(rdfGraph, outcome.value[1].id, HAS_OBJECT) :
               outcome.value[1].phenotype.description
                   \in Objects(rdfGraph, p, LABEL)

\* a list that is returned holds one record per matching association
ReturnedListIsMatching ==
    Called("getAssociations") /\ Returned =>
        /\ Len(outcome.value) = Cardinality(Matching(args))
        /\ RecordIds = Matching(args)


\* the evidence types of the association of record r, and their labels
EvidenceTypes(r) == Objects(rdfGraph, r.id, HAS_EVIDENCE)
EvidenceLabels(r) ==
    UNION {Objects(rdfGraph, ev, LABEL) : ev \in EvidenceTypes(r)}

\* C5 (as stated): a record of an association with exactly one evidence
\* type with a label has exactly one evidence entry, described by that
\* label; a record of an association whose evidence type has no label has
\* no evidence entry.
C5_EvidenceFollowsLabel ==
    Called("getAssociations") /\ Returned =>
        \A i \in 1..Len(outcome.value) :
            LET r == outcome.value[i]
            IN /\ Cardinality(EvidenceTypes(r)) = 1
                  /\ Cardinality(EvidenceLabels(r)) = 1 =>
                      /\ Len(r.evidence) = 1
                      /\ r.evidence[1].description \in EvidenceLabels(r)
               /\ EvidenceLabels(r) = {} => r.evidence = <<>>

\* C5 (amended): every record has exactly one evidence entry, with or
\* without a label on the evidence type; its description is a has-quality
\* URI of the record's phenotype without the first declared namespace that
\* occurs in it, and None when no declared namespace occurs in it.
C5_EvidenceIsQualityIdentifier ==
    Called("getAssociations") /\ Returned =>
        \A i \in 1..Len(outcome.value) :
            LET r == outcome.value[i]
                d == r.evidence[1].description
                occurs(q) == {j \in 1..Len(namespaces) :
                                 Contains(q, namespaces[j].namespace)}
            IN /\ Len(r.evidence) = 1
               /\ r.evidence[1].evidenceType.term \in EvidenceTypes(r)
               /\ \E p \in Objects(rdfGraph, r.id, HAS_OBJECT) :
                  \E q \in Objects(rdfGraph, p, HAS_QUALITY) :
                      IF occurs(q) = {} THEN d = None
                      ELSE \E j \in occurs(q) :
                              /\ \A k \in occurs(q) : j <= k
                              /\ d = Remove(q, namespaces[j].namespace)

\* a record with one evidence entry although its evidence type has no label
C5_Witness ==
    /\ Called("getAssociations") /\ Returned
    /\ \E i \in 1..Len(outcome.value) :
           /\ EvidenceLabels(outcome.value[i]) = {}
           /\ Len(outcome.value[i].evidence) = 1
           /\ outcome.value[i].evidence[1].description # None

\* the terms of criterion c that carry an explicit id
TermsWithId(c) == {i \in 1..Len(c.terms) : Truthy(c.terms[i].id)}

\* C6: for every role, a term with an explicit id in a structured criterion
\* appears in the generated filter as the equality test '?<role> = <id>',
\* and the filter has no regex clause for that role.
C6_ExplicitIdIsEquality ==
    Called("formatFilterQuery") /\ Returned =>
        \A r \in 1..Len(Roles) :
            LET c == CriterionOf(args, Roles[r])
            IN IsDict(c) /\ TermsWithId(c) # {} =>
                 /\ \A i \in TermsWithId(c) :
                        Contains(outcome.value,
                                 <<EqOpen(Roles[r])>> \o c.terms[i].id
                                     \o <<EqClose>>)
                 /\ \A k \in 1..Len(outcome.value) :
                        outcome.value[k] # RegexOpen(Roles[r])

C6_Witness ==
    /\ Called("formatFilterQuery") /\ Returned
    /\ IsDict(args.environment) /\ TermsWithId(args.environment) # {}
    /\ Len(args.environment.terms) = 2
    /\ IsStr(args.feature)

\* the query of testFormatQuery for the strings f, e and p
AllRegexQuery(f, e, p) ==
    <<QueryHead, "FILTER (", "regex(?feature_label, \"">> \o f
    \o <<"\")", " && ", "regex(?environment_label, \"">> \o e
    \o <<"\")", " && ", "regex(?phenotype_label, \"">> \o p
    \o <<"\")", ")", QueryTail>>

AllStrings(a) == IsStr(a.feature) /\ IsStr(a.environment) /\ IsStr(a.phenotype)

\* C7 (as stated): when all three criteria are strings the query is the
\* template with one FILTER of three regex clauses, on ?feature_label,
\* ?environment_label and ?phenotype_label in this order, joined by '&&'.
C7_AllStringsAllClauses ==
    Called("formatFilterQuery") /\ AllStrings(args) =>
        outcome = Return(AllRegexQuery(args.feature.str, args.environment.str,
                                       args.phenotype.str))

\* C7 (amended): the same, when all three criteria are non-empty strings.
C7_NonEmptyStringsAllClauses ==
    Called("formatFilterQuery") /\ AllStrings(args)
    /\ args.feature.str # <<>> /\ args.environment.str # <<>>
    /\ args.phenotype.str # <<>> =>
        outcome = Return(AllRegexQuery(args.feature.str, args.environment.str,
                                       args.phenotype.str))

C7_Witness ==
    /\ Called("formatFilterQuery") /\ Returned
    /\ args.feature = StrCriterion(<<"a">>)
    /\ args.environment = StrCriterion(<<"b">>)
    /\ args.phenotype = StrCriterion(<<"a">>)

C9_PrefixResolution ==
    Called("toNamespaceURL") /\ Colons(args.term) = 1 =>
        LET parts == Split(args.term, ":")
            bound == {j \in 1..Len(namespaces) :
                         namespaces[j].prefix = parts[1]}
        IN /\ bound = {} => outcome = Raise(NotImplementedException)
           /\ bound # {} =>
                \E j \in bound :
                    outcome = Return(namespaces[j].namespace \o parts[2])

C9_Witness ==
    /\ Called("toNamespaceURL") /\ args.term = <<"X", ":", "2">>
    /\ outcome = Raise(NotImplementedException)
    /\ rdfGraph # <<>>

\* the number of clauses of the FILTER of a generated query
ClauseCount(text) ==
    LET inner == SubSeq(text, 3, Len(text) - 2)
    IN IF inner = <<>> THEN 0
       ELSE 1 + Cardinality({i \in 1..Len(inner) : inner[i] = " && "})

\* C10: the filter joins with && exactly one clause for each non-empty
\* string, each non-empty identifier list and each non-empty term list, and
\* every association returned satisfies every criterion.
C10_FilterIsConjunction ==
    /\ Called("formatFilterQuery") /\ Returned =>
          /\ ClauseCount(outcome.value) = Contributions(args)
          /\ outcome.value[2] = "FILTER ("
    /\ Called("getAssociations") /\ Returned =>
          RecordIds \subseteq Matching(args)

\* two clauses, and they keep one association and drop another
C10_Witness ==
    /\ Called("getAssociations") /\ Returned
    /\ Contributions(args) >= 2
    /\ RecordIds # {}
    /\ RecordIds # {sol.association : sol \in PatternSolutions(rdfGraph)}


\* C11 (as stated): the simulated set returns exactly one synthetic
\* association when any of feature, environment, phenotype is not None, and
\* the empty list otherwise; it never raises.
C11_SimulatedOneWhenNotAbsent ==
    Called("simulatedGetAssociations") =>
        outcome = IF AllAbsent(args) THEN Return(<<>>)
                  ELSE Return(<<SyntheticAssociation>>)

\* a criterion that is a non-empty string or a dict holding an id or a term
Filled(c) ==
    \/ IsStr(c) /\ c.str # <<>>
    \/ IsDict(c) /\ (c.ids # <<>> \/ c.terms # <<>>)

\* a criterion that is None or the empty string
Blank(c) == IsNone(c) \/ (IsStr(c) /\ c.str = <<>>)

\* C11 (amended): the simulated set never raises; it returns exactly one
\* synthetic association (id 'test', no features, evidence or environmental
\* contexts, the set's id) when some criterion is a non-empty string or a
\* dict holding an id or a term, and the empty list when every criterion is
\* None or the empty string.
C11_SimulatedOneWhenTruthy ==
    Called("simulatedGetAssociations") =>
        /\ outcome.err = NoError
        /\ (\E r \in 1..Len(Roles) : Filled(CriterionOf(args, Roles[r]))) =>
              /\ Len(outcome.value) = 1
              /\ outcome.value[1].id = <<"test">>
              /\ outcome.value[1].features = <<>>
              /\ outcome.value[1].evidence = <<>>
              /\ outcome.value[1].environmentalContexts = <<>>
              /\ outcome.value[1].phenotypeAssociationSetId = SetId
        /\ (\A r \in 1..Len(Roles) : Blank(CriterionOf(args, Roles[r]))) =>
              outcome.value = <<>>

\* one synthetic association for a phenotype string alone
C11_Witness ==
    /\ Called("simulatedGetAssociations")
    /\ IsNone(args.feature) /\ args.environment = StrCriterion(<<>>)
    /\ args.phenotype = StrCriterion(<<"a">>)
    /\ Len(outcome.value) = 1


\* the outcomes a getAssociations call with the criteria of args can have
\* when it is made with pageSize ps and offset off
OutcomesWith(ps, off) ==
    IF op = "getAssociations"
    THEN {r.outcome : r \in getAssociations(rdfGraph, namespaces, version,
                                args.feature, args.environment,
                                args.phenotype, ps, off)}
    ELSE simulatedGetAssociations(args.feature, args.environment,
                                  args.phenotype, ps, off)

\* pageSize=None (written -1) and offset=0, the defaults of the parameters
DefaultPaging(ps, off) == ps = -1 /\ off = 0

\* C12: on a fixed graph and with fixed criteria, pageSize and offset do not
\* influence getAssociations (of the graph-backed and of the simulated set):
\* what a call with some pageSize and offset gives, list or error, the call
\* without them gives too, and what the call without them gives, the call
\* with any pageSize and offset gives too.
C12_PagingIsIgnored ==
    Called("getAssociations") \/ Called("simulatedGetAssociations") =>
        \A ps \in PageSizes, off \in Offsets :
            DefaultPaging(ps, off)
            \/ DefaultPaging(args.pageSize, args.offset) =>
                outcome \in OutcomesWith(ps, off)

\* two records returned for page size 1 and offset 1
C12_Witness ==
    /\ Called("getAssociations") /\ Returned
    /\ Len(outcome.value) = 2
    /\ args.pageSize = 1 /\ args.offset = 1


\* the features whose label matches the name of the search
MatchingFeatures ==
    {sol.feature : sol \in {x \in PatternSolutions(rdfGraph) :
                               ~Truthy(session.name)
                               \/ Contains(x.feature_label, session.name)}}

SearchOver == ~session.open /\ ~session.failed /\ session.pages # <<>>

\* C13: a feature search with at least one match that is over without an
\* error has, for page size 1, one feature on every page, a page never
\* holds the feature of the page before it, and there are as many pages as
\* matching features; without a page size it has one page that holds all
\* matching features.
C13_PagingVisitsEveryFeature ==
    SearchOver /\ MatchingFeatures # {} =>
        LET pages == session.pages
        IN IF session.pageSize = 1
           THEN /\ \A i \in 1..Len(pages) : Len(pages[i]) = 1
                /\ \A i \in 2..Len(pages) : pages[i] # pages[i - 1]
                /\ Len(pages) = Cardinality(MatchingFeatures)
           ELSE /\ Len(pages) = 1
                /\ {pages[1][i] : i \in 1..Len(pages[1])} = MatchingFeatures
                /\ Len(pages[1]) = Cardinality(MatchingFeatures)


\* the predicates of the triples of url
PredicatesOf(url) ==
    LET ts == TriplesOf(rdfGraph, url) IN {ts[i].p : i \in 1..Len(ts)}

\* C14: in the detail dictionary of a URI, a predicate with one value among
\* the URI's triples maps to that value, and a predicate with several values
\* maps to a list of all of them, so not to a single one of them.
C14_DetailBagKeepsAllValues ==
    Called("getDetails") =>
        \A p \in PredicatesOf(args.url) :
            LET values == Objects(rdfGraph, args.url, p)
            IN /\ p \in DOMAIN outcome.value
               /\ Cardinality(values) = 1 => outcome.value[p] \in values
               /\ Cardinality(values) > 1 => outcome.value[p] \notin values

\* the associations with a feature label that every pattern occurs in
MatchingByLabel(patterns) ==
    {sol.association :
        sol \in {x \in PatternSolutions(rdfGraph) :
                    \A i \in 1..Len(patterns) :
                        Contains(x.feature_label, patterns[i])}}

\* the patterns of a getFeatures call
FeaturePatterns(a) ==
    (IF Truthy(a.referenceName) THEN << <<"NOT SUPPORTED">> >> ELSE <<>>)
    \o (IF Truthy(a.geneSymbol) THEN <<a.geneSymbol>> ELSE <<>>)
    \o (IF Truthy(a.name) THEN <<a.name>> ELSE <<>>)

\* C15: a getAssociations call either fails, and hands no record to the
\* caller, or returns one record for every matching association; a
\* getFeatures call either fails before it yields anything or yields one
\* feature for every matching association.
C15_NoPartialFailure ==
    /\ Called("getAssociations") =>
          \/ outcome.err # NoError /\ outcome.value = None
          \/ /\ Returned /\ RecordIds = Matching(args)
             /\ Len(outcome.value) = Cardinality(Matching(args))
    /\ Called("getFeatures") =>
          \/ outcome.err # NoError /\ outcome.value = None
          \/ /\ Returned
             /\ Len(outcome.value) =
                    Cardinality(MatchingByLabel(FeaturePatterns(args)))

\* a call that fails on the second of two matching associations
C15_Witness ==
    /\ Called("getAssociations") /\ outcome = Raise(KeyError)
    /\ args.feature = StrCriterion(<<"a">>)
    /\ IsNone(args.environment) /\ IsNone(args.phenotype)
    /\ F2 \in {sol.feature : sol \in PatternSolutions(rdfGraph)}
    /\ Objects(rdfGraph, F2, TYPE) = {}
    /\ Objects(rdfGraph, F1, TYPE) # {}

\* C16 (as stated): a returned record has an environmental context only
\* when the call had an environment criterion; then it has exactly one,
\* with an environment of the association as id and a label of an
\* environment as description.
C16_ContextOnlyWithCriterion ==
    Called("getAssociations") /\ Returned =>
        \A i \in 1..Len(outcome.value) :
            LET r == outcome.value[i]
                envs == Objects(rdfGraph, r.id, HAS_ENVIRONMENT)
            IN IF IsNone(args.environment)
               THEN r.environmentalContexts = <<>>
               ELSE /\ Len(r.environmentalContexts) = 1
                    /\ r.environmentalContexts[1].id \in envs
                    /\ \E e \in envs :
                           r.environmentalContexts[1].description
                               \in Objects(rdfGraph, e, LABEL)

\* C16 (amended): every returned record has exactly one environmental
\* context, with or without an environment criterion in the call; its id is
\* an environment of the association, its description a label of an
\* environment of the association, and its type has the fixed relation
\* identifier RO_0002606.
C16_AlwaysOneContext ==
    Called("getAssociations") /\ Returned =>
        \A i \in 1..Len(outcome.value) :
            LET r == outcome.value[i]
                envs == Objects(rdfGraph, r.id, HAS_ENVIRONMENT)
            IN /\ Len(r.environmentalContexts) = 1
               /\ r.environmentalContexts[1].id \in envs
               /\ \E e \in envs :
                      r.environmentalContexts[1].description
                          \in Objects(rdfGraph, e, LABEL)
               /\ r.environmentalContexts[1].environmentType.id = RO_0002606

\* a record with a context although the call had no environment criterion
C16_Witness ==
    /\ Called("getAssociations") /\ Returned
    /\ IsNone(args.environment)
    /\ Len(outcome.value) = 2
    /\ outcome.value[1].environmentalContexts[1].id = E1

\* u comes before v in the order of URIs, token by token
RECURSIVE Before(_, _)
Before(u, v) ==
    /\ v # <<>>
    /\ \/ u = <<>>
       \/ Rank(Head(u)) < Rank(Head(v))
       \/ Head(u) = Head(v) /\ Before(Tail(u), Tail(v))

\* C17: the records of a returned list are in ascending order of their
\* association URI, and no two of them have the same association URI.
C17_OrderedByAssociation ==
    Called("getAssociations") /\ Returned =>
        \A i, j \in 1..Len(outcome.value) :
            i < j => Before(outcome.value[i].id, outcome.value[j].id)

C17_Witness ==
    /\ Called("getAssociations") /\ Returned
    /\ Len(outcome.value) = 2
    /\ outcome.value[1].id = A1 /\ outcome.value[2].id = A2
    /\ IsDict(args.phenotype)

\* C18: no call, successful or failing, changes the triples, the namespace
\* bindings or the version.
C18_GraphIsReadOnly ==
    [][ /\ rdfGraph' = rdfGraph
        /\ namespaces' = namespaces
        /\ version' = version ]_vars

\* a failed feature search on a loaded graph
C18_Witness ==
    /\ Called("getFeatures") /\ outcome.err # NoError
    /\ rdfGraph # <<>> /\ queries = 1

\* no declared namespace occurs in url
UnderNoNamespace(url) ==
    \A j \in 1..Len(namespaces) : ~Contains(url, namespaces[j].namespace)

\* C19 (as stated): for a URI under no declared namespace, _getPrefix,
\* _getPrefixURL and _getIdentifier fail with the not-supported error.
C19_LookupsFail ==
    /\ op \in {"getPrefix", "getPrefixURL", "getIdentifier"}
    /\ UnderNoNamespace(args.url)
    => outcome = Raise(NotImplementedException)

\* C19 (amended): for a URI under no declared namespace, _getPrefix fails
\* with the not-supported error, and _getPrefixURL and _getIdentifier
\* return None.
C19_OnlyGetPrefixFails ==
    /\ op \in {"getPrefix", "getPrefixURL", "getIdentifier"}
    /\ UnderNoNamespace(args.url)
    => outcome = IF op = "getPrefix" THEN Raise(NotImplementedException)
                 ELSE Return(None)

C19_Witness ==
    /\ op = "getPrefix" /\ args.url = <<"d/", "1">>
    /\ outcome = Raise(NotImplementedException)
    /\ rdfGraph # <<>>


\* the file does not parse in the format its name selects
Malformed(file) == file.syntax # FormatOf(file)

\* the triples of the files of dataDir, in the order of the scan
RECURSIVE TriplesIn(_)
TriplesIn(files) ==
    IF files = <<>> THEN <<>>
    ELSE Head(files).triples \o TriplesIn(Tail(files))

\* C20: the construction of an association set from a data directory with
\* a malformed file fails with a parse error, and a construction that
\* returns has loaded every triple of every file of the directory.
C20_MalformedFileFailsConstruction ==
    Called("__init__") /\ ~args.dataDir.isNone =>
        IF \E i \in 1..Len(args.dataDir.listing) :
               Malformed(args.dataDir.listing[i])
        THEN outcome = Raise(ParseError)
        ELSE /\ outcome = Return(None)
             /\ rdfGraph = TriplesIn(ScanOrder(args.dataDir))

\* a construction that fails on its second file, after the first is loaded
C20_Witness ==
    /\ Called("__init__") /\ outcome = Raise(ParseError)
    /\ Len(args.dataDir.listing) = 2
    /\ Len(args.files) = 1
    /\ ~Malformed(args.dataDir.listing[2])
    /\ Malformed(args.dataDir.listing[1])
    /\ args.dataDir.listing[1].ext = "xml"
    /\ args.dataDir.listing[2].ext = "ttl"
    /\ rdfGraph # <<>>


\* the ids under which an object of the kind was added
AddedIds(kind) == {added[kind][i].id : i \in 1..Len(added[kind])}

\* the exception the docstring of getX names for an unknown id
DocumentedNotFound(kind) ==
    CASE kind = "VariantSet" -> "VariantSetNotFoundException"
      [] kind = "FeatureSet" -> "FeatureSetNotFoundException"
      [] kind = "ReadGroupSet" -> "ReadGroupSetNotFoundException"
      [] kind = "BioSample" -> "BioSampleNotFoundException"
      [] kind = "Individual" -> "IndividualNotFoundException"

\* C21: getVariantSet, getFeatureSet, getReadGroupSet, getBioSample and
\* getIndividual of an id that was never added raise the not-found
\* exception their docstring names, and leave the dataset as it was.
C21_UnknownIdRaisesDocumented ==
    [][ /\ pc' = "done" /\ op' = "get"
        /\ args'.kind # "PhenotypeAssociationSet"
        /\ args'.id \notin AddedIds(args'.kind)
        => /\ outcome' = Raise(DocumentedNotFound(args'.kind))
           /\ dataset' = dataset ]_vars


\* the object added last among those that satisfy test
LastAdded(kind, test(_)) ==
    LET objects == added[kind]
        hits == {i \in 1..Len(objects) : test(objects[i])}
    IN objects[CHOOSE i \in hits : \A j \in hits : j <= i]

\* C22: after any adds, for every kind, getXByIndex(i) with
\* 0 <= i < getNumX() returns the i-th object added, getXs() lists the
\* added objects in the order they were added, and getX(id) and
\* getXByName(name) return the object added last under that id or name.
C22_GettersFollowInsertion ==
    /\ Called("getByIndex") /\ args.index >= 0
       /\ args.index < Len(dataset[args.kind].ids)
       => outcome = Return(added[args.kind][args.index + 1])
    /\ Called("getAll") => outcome = Return(added[args.kind])
    /\ Called("get") /\ args.id \in AddedIds(args.kind)
       => outcome = Return(LastAdded(args.kind, LAMBDA o : o.id = args.id))
    /\ Called("getByName")
       /\ (\E i \in 1..Len(added[args.kind]) :
               added[args.kind][i].name = args.name)
       => outcome =
              Return(LastAdded(args.kind, LAMBDA o : o.name = args.name))


\* C28: after any addPhenotypeAssociationSet calls, also of two sets with
\* the same id, getPhenotypeAssociationSets() has
\* getNumPhenotypeAssociationSets() elements, and its i-th element is what
\* getPhenotypeAssociationSetByIndex(i) returns.
C28_ListAgreesWithIndex ==
    Called("getAll") /\ args.kind = "PhenotypeAssociationSet" =>
        LET sets == dataset["PhenotypeAssociationSet"]
        IN /\ Return(Len(outcome.value)) = getNum(sets)
           /\ \A i \in 1..Len(outcome.value) :
                  Return(outcome.value[i]) = getByIndex(sets, i - 1)


\* the URIs of the external identifiers ids: database then identifier
IdUris(ids) == {ids[i].database \o ids[i].identifier : i \in 1..Len(ids)}

\* '(?role = <u1>  || ?role = <u2> )' for the external identifiers ids
RECURSIVE EqualityTests(_, _)
EqualityTests(role, ids) ==
    IF ids = <<>> THEN <<>>
    ELSE <<EqOpen(role)>> \o Head(ids).database \o Head(ids).identifier
         \o <<EqClose>>
         \o (IF Tail(ids) = <<>> THEN <<>> ELSE <<" || ">>)
         \o EqualityTests(role, Tail(ids))

\* the associations with a solution whose URI for the role is among uris
WithRoleUri(role, uris) ==
    {sol.association :
        sol \in {x \in PatternSolutions(rdfGraph) : UriOf(x, role) \in uris}}

\* the criteria of a are absent but for the role's, which has no terms
OnlyIdsOf(a, role) ==
    /\ CriterionOf(a, role).terms = <<>>
    /\ \A q \in 1..Len(Roles) :
           Roles[q] # role => IsNone(CriterionOf(a, Roles[q]))

\* C23: for every role, a structured criterion with external identifiers
\* contributes one parenthesised clause, the '||' of one equality test per
\* identifier against the URI database + identifier; the returned
\* associations have such a URI in the role, and with no other criterion
\* they are all the associations that have one.
C23_IdsAreOrOfEqualities ==
    \A r \in 1..Len(Roles) :
        LET c == CriterionOf(args, Roles[r])
        IN /\ Called("formatFilterQuery") /\ Returned
              /\ IsDict(c) /\ c.ids # <<>>
              => Contains(outcome.value,
                          <<"(">> \o EqualityTests(Roles[r], c.ids)
                                  \o <<")">>)
           /\ Called("getAssociations") /\ Returned
              /\ IsDict(c) /\ c.ids # <<>>
              => /\ RecordIds \subseteq WithRoleUri(Roles[r], IdUris(c.ids))
                 /\ OnlyIdsOf(args, Roles[r])
                    => RecordIds = WithRoleUri(Roles[r], IdUris(c.ids))

\* a call with two identifiers for the feature, one of which matches
C23_Witness ==
    /\ Called("getAssociations") /\ Returned
    /\ IsDict(args.feature) /\ Len(args.feature.ids) = 2
    /\ OnlyIdsOf(args, "feature")
    /\ Len(outcome.value) = 1


\* the call ran its query and the query text was accepted
QueryRan == queries = 1 /\ outcome # Raise(ParseException)

MatchedBy(a) ==
    IF op = "getFeatures" THEN MatchingByLabel(FeaturePatterns(a))
    ELSE Matching(a)

\* C25: a row of the query result that does not bind the feature variable
\* is dropped: it gives no record, no detail lookup and no error.  Every
\* row that binds it has its feature, environment and phenotype looked up
\* and, when the call returns, gives exactly one record; so the test that
\* collects the URIs and the test that builds the records accept the same
\* rows.
C25_UnboundRowsAreDropped ==
    (Called("getAssociations") \/ Called("getFeatures")) /\ QueryRan =>
        /\ MatchedBy(args) = {} => outcome = Return(<<>>) /\ lookups = <<>>
        /\ Len(lookups) = 3 * Cardinality(MatchedBy(args))
        /\ Returned => Len(outcome.value) = Cardinality(MatchedBy(args))
        /\ Returned /\ op = "getAssociations" => RecordIds = MatchedBy(args)
        /\ Returned =>
              \A i \in 1..Len(outcome.value) :
                  lookups[3 * (i - 1) + 1] =
                      IF op = "getAssociations"
                      THEN outcome.value[i].features[1].id
                      ELSE outcome.value[i].feature.id

\* a call whose query has no solution on a graph with associations
C25_Witness ==
    /\ Called("getAssociations") /\ QueryRan
    /\ rdfGraph # <<>>
    /\ MatchedBy(args) = {}
    /\ outcome = Return(<<>>)


\* the dictionary has the URI as 'id' and nothing but values of triples
\* of that URI
DetailsOf(dictionary, uri) ==
    /\ "id" \in DOMAIN dictionary /\ dictionary["id"] = uri
    /\ \A k \in DOMAIN dictionary \ {"id"} :
           dictionary[k] \in Objects(rdfGraph, uri, k)

\* C26: in every record of a returned list, the feature, the environment
\* and the phenotype are those of the record's association, the feature's
\* detail dictionary has the feature URI as 'id' and only values of the
\* feature's own triples, and what the record shows of the environment and
\* of the phenotype are values of their own triples.
C26_DetailsJoinedByUri ==
    Called("getAssociations") /\ Returned =>
        \A i \in 1..Len(outcome.value) :
            LET r == outcome.value[i]
                f == lookups[3 * i - 2]
                e == lookups[3 * i - 1]
                p == lookups[3 * i]
            IN /\ f \in Objects(rdfGraph, r.id, HAS_SUBJECT)
               /\ e \in Objects(rdfGraph, r.id, HAS_ENVIRONMENT)
               /\ p \in Objects(rdfGraph, r.id, HAS_OBJECT)
               /\ DetailsOf(r.features[1].attributes, f)
               /\ r.features[1].id = f
               /\ r.environmentalContexts[1].id = e
               /\ r.phenotype.type.id = p
               /\ r.phenotype.type.term \in Objects(rdfGraph, p, TYPE)
               /\ r.phenotype.description \in Objects(rdfGraph, p, LABEL)

\* two records with different features and phenotypes
C26_Witness ==
    /\ Called("getAssociations") /\ Returned
    /\ Len(outcome.value) = 2
    /\ outcome.value[1].features[1].attributes["id"] = F1
    /\ outcome.value[2].features[1].attributes["id"] = F2
    /\ outcome.value[1].phenotype.type.id = P1
    /\ outcome.value[2].phenotype.type.id = P2


\* C27: the query text _formatFilterQuery returns never has an empty
\* 'FILTER ()': its FILTER holds at least one clause, whatever criteria
\* passed the test for at least one criterion.
C27_FilterIsNeverEmpty ==
    Called("formatFilterQuery") /\ Returned =>
        /\ ~Contains(outcome.value, <<"FILTER (", ")">>)
        /\ Len(FilterClauses(outcome.value)) >= 1


\* C29: for every bound prefix P and local id x, with
\* u = _toNamespaceURL('P:x'), _getIdentifier(u) is x and
\* _getPrefix(_getPrefixURL(u)) is P, also when one declared namespace is
\* the beginning of another.
C29_ResolutionRoundTrips ==
    Called("roundTrip") =>
        /\ Returned
        /\ outcome.value.identifier = args.localId
        /\ outcome.value.prefix = Return(args.prefix)


\* C30: when a matched association's URI lies under no declared namespace,
\* getAssociations fails with the not-supported error and returns no
\* record, also when every criterion is a plain string; when every
\* matched association lies under a declared namespace, the call does not
\* fail with that error.
C30_UndeclaredNamespaceFails ==
    Called("getAssociations") /\ QueryRan =>
        IF \E a \in Matching(args) : UnderNoNamespace(a)
        THEN outcome = Raise(NotImplementedException)
        ELSE outcome.err # NotImplementedException

=============================================================================
